---- MODULE Spec2Model ----
(***************************************************************************)
(* Agile Mini API (backend/main.py): the store of projects, sprints and    *)
(* tasks, the request handlers that change it, and the reporting handlers  *)
(* (sprint status, burndown, velocity, summary, lead time, CFD).           *)
(*                                                                         *)
(* A datetime is a number of ticks since the epoch of the model; a day has *)
(* TicksPerDay ticks and datetime.date() is the day number. A nullable     *)
(* integer or datetime column holds None, a nullable string column holds   *)
(* NoneStr. A payload field the client did not send is Unset / UnsetStr.   *)
(*                                                                         *)
(* A handler is one step: it opens its session, runs and closes the        *)
(* session within the step.  requests holds the requests whose steps are   *)
(* told apart, for the life of a session: SessionLocal(), the body of the  *)
(* handler, and close().                                                   *)
(***************************************************************************)
EXTENDS Integers, Sequences, FiniteSets, TLC

VARIABLES projects, sprints, tasks, now, response, requests

vars == <<projects, sprints, tasks, now, response, requests>>

----------------------------------------------------------------------------
(* Bounds of the model *)

MaxTime == 5
TicksPerDay == 2
MaxSprints == 2
MaxTasks == 2
MaxPoints == 1
MaxProjects == 2
\* the requests that are served at the same time
MaxRequests == 2
\* the sprints of the specification of the sprint calendar
MaxCalendarSprints == 1
\* the sprints that seed_demo_data makes (range(3) in the program) and the
\* tasks it makes in each (range(5)); seed_more_data makes as many tasks in
\* each of its sprints (12, 10 or 8 in the program)
SeedSprints == 1
SeedTasksPerSprint == 1
\* the sprints that seed_more_data makes (range(6) in the program)
MoreSprints == 1

----------------------------------------------------------------------------
(* Values *)

None == -1
Unset == -2
NoneStr == "None"
UnsetStr == "Unset"

Times == 0..MaxTime
HoursPerTick == 24 \div TicksPerDay

\* datetime.date(): the calendar day of a datetime
Date(dt) == dt \div TicksPerDay

\* Python truthiness of an Optional[int]: None and 0 are false
Truthy(v) == v # None /\ v # 0

\* Python truthiness of an Optional[datetime]: only None is false
IsSet(dt) == dt # None

Max(S) == CHOOSE x \in S : \A y \in S : y <= x
Min(S) == CHOOSE x \in S : \A y \in S : x <= y

\* the rows of a query in primary-key order, as a list of ids
RECURSIVE IdList(_)
IdList(S) == IF S = {} THEN <<>> ELSE <<Min(S)>> \o IdList(S \ {Min(S)})

\* INTEGER PRIMARY KEY of a new row: one more than the largest id in use
NextId(table) == IF DOMAIN table = {} THEN 1 ELSE Max(DOMAIN table) + 1

----------------------------------------------------------------------------
(* Responses *)

Ok(op, arg, body) == [op |-> op, arg |-> arg, at |-> now, code |-> 200, body |-> body]
HTTPException(op, arg, code, detail) ==
    [op |-> op, arg |-> arg, at |-> now, code |-> code, body |-> detail]
NoResponse == [op |-> "none", arg |-> None, at |-> 0, code |-> 0, body |-> ""]

----------------------------------------------------------------------------
(* Initial state: Base.metadata.create_all on an empty database *)

\* a request that has not arrived: it has no handler and no session
NoRequest == [handler |-> "none", pc |-> "idle", db |-> "none", exit |-> "none"]

Init ==
    /\ projects = <<>>
    /\ sprints = <<>>
    /\ tasks = <<>>
    /\ now = 0
    /\ response = NoResponse
    /\ requests = [r \in 1..MaxRequests |-> NoRequest]

\* datetime.utcnow() advances between requests
Tick ==
    /\ now < MaxTime
    /\ now' = now + 1
    /\ UNCHANGED <<projects, sprints, tasks, response, requests>>

----------------------------------------------------------------------------
(* Sprints *)

StatusCalcNoBoundary(t, start_date, end_date) ==
    IF t < start_date THEN "Planejado"
    ELSE IF start_date <= t /\ t < end_date THEN "Ativo"
    ELSE "Concluído"

\* status_calculado of list_sprints, create_sprint and get_sprint
StatusCalc(t, start_date, end_date) ==
    IF t < start_date THEN "Planejado"
    ELSE IF start_date <= t /\ t <= end_date THEN "Ativo"
    ELSE "Concluído"

\* SprintResponse(id=..., name=..., start_date=..., end_date=..., status=...,
\* status_calculado=...): project_id is not passed and takes its default
SprintResponse(s, t) ==
    [id |-> s.id, name |-> s.name, start_date |-> s.start_date,
     end_date |-> s.end_date, status |-> s.status, project_id |-> None,
     status_calculado |-> StatusCalc(t, s.start_date, s.end_date)]

list_sprints ==
    /\ response' = Ok("list_sprints", None,
          [i \in 1..Len(IdList(DOMAIN sprints)) |->
              SprintResponse(sprints[IdList(DOMAIN sprints)[i]], now)])
    /\ UNCHANGED <<projects, sprints, tasks, now, requests>>

\* sprint: a SprintCreate payload [name, start_date, end_date, status, project_id]
create_sprint(sprint) ==
    /\ IF Truthy(sprint.project_id) /\ sprint.project_id \notin DOMAIN projects
       THEN /\ response' = HTTPException("create_sprint", None, 404, "Projeto não encontrado")
            /\ UNCHANGED sprints
       ELSE IF /\ Truthy(sprint.project_id)
               /\ IsSet(projects[sprint.project_id].start_date)
               /\ sprint.start_date < projects[sprint.project_id].start_date
       THEN /\ response' = HTTPException("create_sprint", None, 400, "start before project")
            /\ UNCHANGED sprints
       ELSE IF /\ Truthy(sprint.project_id)
               /\ IsSet(projects[sprint.project_id].end_date)
               /\ sprint.end_date > projects[sprint.project_id].end_date
       THEN /\ response' = HTTPException("create_sprint", None, 400, "end after project")
            /\ UNCHANGED sprints
       ELSE LET id == NextId(sprints)
                db_sprint == [id |-> id, name |-> sprint.name,
                              start_date |-> sprint.start_date,
                              end_date |-> sprint.end_date,
                              status |-> sprint.status,
                              project_id |-> sprint.project_id]
            IN /\ sprints' = [i \in DOMAIN sprints \cup {id} |->
                                IF i = id THEN db_sprint ELSE sprints[i]]
               /\ response' = Ok("create_sprint", id, SprintResponse(db_sprint, now))
    /\ UNCHANGED <<projects, tasks, now, requests>>

get_sprint(sprint_id) ==
    /\ response' = IF sprint_id \notin DOMAIN sprints
                   THEN HTTPException("get_sprint", sprint_id, 404, "Sprint not found")
                   ELSE Ok("get_sprint", sprint_id, SprintResponse(sprints[sprint_id], now))
    /\ UNCHANGED <<projects, sprints, tasks, now, requests>>

----------------------------------------------------------------------------
(* Tasks *)

AllowedStatus == {"To Do", "Doing", "Done"}
AllowedPriority == {"Baixa", "Média", "Alta"}

\* the attribute of a parsed payload: a field that was not sent has its default
Attr(v, default) == IF v = Unset THEN default ELSE v
AttrStr(v, default) == IF v = UnsetStr THEN default ELSE v

\* a points value below zero (None and Unset are no points)
BelowZero == -3

PointsValidAny(v) == TRUE

\* points_must_be_positive: only a value below zero is refused
PointsValid(v) == v = Unset \/ v = None \/ v >= 0

\* status_must_be_valid, priority_must_be_valid: the validators run on a value
\* that was sent and is not None
EnumValid(v, allowed) == v = UnsetStr \/ v = NoneStr \/ v \in allowed

\* TaskCreate and TaskUpdate carry the same three validators
TaskPayloadValid(task) ==
    /\ PointsValid(task.points)
    /\ EnumValid(task.status, AllowedStatus)
    /\ EnumValid(task.priority, AllowedPriority)

\* TaskResponse built from the ORM row: atrasada is no attribute of the row and
\* takes its default
TaskResponse(t) ==
    [id |-> t.id, title |-> t.title, description |-> t.description,
     status |-> t.status, project |-> t.project, sprint_id |-> t.sprint_id,
     points |-> t.points, priority |-> t.priority, created_at |-> t.created_at,
     started_at |-> t.started_at, completed_at |-> t.completed_at,
     atrasada |-> FALSE]

\* response_model=TaskResponse: title and status are required strings
TaskReply(op, arg, t) ==
    IF t.status = NoneStr \/ t.title = NoneStr
    THEN HTTPException(op, arg, 500, "ResponseValidationError")
    ELSE Ok(op, arg, TaskResponse(t))

get_task(task_id) ==
    /\ response' = IF task_id \notin DOMAIN tasks
                   THEN HTTPException("get_task", task_id, 404, "Task not found")
                   ELSE TaskReply("get_task", task_id, tasks[task_id])
    /\ UNCHANGED <<projects, sprints, tasks, now, requests>>

\* the delay flag of read_tasks: the task's sprint exists, has an end_date,
\* the task is not Done and the sprint's end is past
Atrasada(t, at) ==
    /\ t.sprint_id \in DOMAIN sprints
    /\ IsSet(sprints[t.sprint_id].end_date)
    /\ t.status # "Done"
    /\ at > sprints[t.sprint_id].end_date

\* the TaskResponse that read_tasks builds by hand: points is not passed and
\* takes its default
TaskListItem(t, at) ==
    [TaskResponse(t) EXCEPT !.points = None, !.atrasada = Atrasada(t, at)]

\* the filters of read_tasks: a filter that is empty or None is not applied,
\* but for sprint, which is applied unless it is None
TaskMatches(t, status, project, sprint, priority) ==
    /\ status \in {NoneStr, ""} \/ t.status = status
    /\ project \in {NoneStr, ""} \/ t.project = project
    /\ sprint = None \/ t.sprint_id = sprint
    /\ priority \in {NoneStr, ""} \/ t.priority = priority

\* a row whose TaskResponse cannot be built (title or status None) is skipped
\* by the except of the loop
read_tasks(status, project, sprint, priority) ==
    /\ LET ids == IdList({i \in DOMAIN tasks :
                             /\ TaskMatches(tasks[i], status, project, sprint, priority)
                             /\ tasks[i].status # NoneStr
                             /\ tasks[i].title # NoneStr})
       IN response' = Ok("read_tasks", sprint,
                         [k \in 1..Len(ids) |-> TaskListItem(tasks[ids[k]], now)])
    /\ UNCHANGED <<projects, sprints, tasks, now, requests>>

\* task: a TaskCreate payload
create_task(task) ==
    /\ IF ~TaskPayloadValid(task)
       THEN /\ response' = HTTPException("create_task", None, 422, "ValueError")
            /\ UNCHANGED tasks
       ELSE IF Truthy(Attr(task.sprint_id, None)) /\ task.sprint_id \notin DOMAIN sprints
       THEN /\ response' = HTTPException("create_task", None, 404, "Sprint não encontrado")
            /\ UNCHANGED tasks
       ELSE IF /\ Truthy(Attr(task.sprint_id, None))
               /\ IsSet(Attr(task.started_at, None))
               /\ task.started_at < sprints[task.sprint_id].start_date
       THEN /\ response' = HTTPException("create_task", None, 400, "started before sprint")
            /\ UNCHANGED tasks
       ELSE IF /\ Truthy(Attr(task.sprint_id, None))
               /\ IsSet(Attr(task.completed_at, None))
               /\ task.completed_at > sprints[task.sprint_id].end_date
       THEN /\ response' = HTTPException("create_task", None, 400, "completed after sprint")
            /\ UNCHANGED tasks
       ELSE \* Task(**task.dict(exclude_unset=True)): a field that was not sent
            \* takes the column's default, which only priority and created_at have
            LET id == NextId(tasks)
                db_task == [id |-> id,
                            title |-> task.title,
                            description |-> AttrStr(task.description, NoneStr),
                            status |-> AttrStr(task.status, NoneStr),
                            project |-> AttrStr(task.project, NoneStr),
                            sprint_id |-> Attr(task.sprint_id, None),
                            points |-> Attr(task.points, None),
                            priority |-> AttrStr(task.priority, "Média"),
                            created_at |-> now,
                            started_at |-> Attr(task.started_at, None),
                            completed_at |-> Attr(task.completed_at, None)]
            IN /\ tasks' = [i \in DOMAIN tasks \cup {id} |->
                              IF i = id THEN db_task ELSE tasks[i]]
               /\ response' = TaskReply("create_task", id, db_task)
    /\ UNCHANGED <<projects, sprints, now, requests>>

\* for key, value in update_data.items(): setattr(db_task, key, value)
SetAttr(old, v) == IF v = Unset THEN old ELSE v
SetAttrStr(old, v) == IF v = UnsetStr THEN old ELSE v

StampNever(status_before, status_after, started_at, t) == started_at

StampAlways(status_before, status_after, started_at, t) ==
    IF status_after = "Doing" THEN t ELSE started_at

\* the started_at of the row before the payload is applied
\* if status_before != "Doing" and status_after == "Doing" and not db_task.started_at
Stamp(status_before, status_after, started_at, t) ==
    IF /\ status_before # "Doing"
       /\ status_after = "Doing"
       /\ ~IsSet(started_at)
    THEN t ELSE started_at

\* task: a TaskUpdate payload
update_task(task_id, task) ==
    /\ IF ~TaskPayloadValid(task)
       THEN /\ response' = HTTPException("update_task", task_id, 422, "ValueError")
            /\ UNCHANGED tasks
       ELSE IF task_id \notin DOMAIN tasks
       THEN /\ response' = HTTPException("update_task", task_id, 404, "Task not found")
            /\ UNCHANGED tasks
       ELSE LET db_task == tasks[task_id]
                status_before == db_task.status
                status_after == SetAttrStr(status_before, task.status)
                stamped == Stamp(status_before, status_after, db_task.started_at, now)
                updated == [id |-> db_task.id,
                            title |-> SetAttrStr(db_task.title, task.title),
                            description |-> SetAttrStr(db_task.description, task.description),
                            status |-> SetAttrStr(db_task.status, task.status),
                            project |-> SetAttrStr(db_task.project, task.project),
                            sprint_id |-> SetAttr(db_task.sprint_id, task.sprint_id),
                            points |-> SetAttr(db_task.points, task.points),
                            priority |-> SetAttrStr(db_task.priority, task.priority),
                            created_at |-> db_task.created_at,
                            started_at |-> SetAttr(stamped, task.started_at),
                            completed_at |-> SetAttr(db_task.completed_at, task.completed_at)]
            IN /\ tasks' = [tasks EXCEPT ![task_id] = updated]
               /\ response' = TaskReply("update_task", task_id, updated)
    /\ UNCHANGED <<projects, sprints, now, requests>>

delete_task(task_id) ==
    /\ IF task_id \notin DOMAIN tasks
       THEN /\ response' = HTTPException("delete_task", task_id, 404, "Task not found")
            /\ UNCHANGED tasks
       ELSE /\ tasks' = [i \in DOMAIN tasks \ {task_id} |-> tasks[i]]
            /\ response' = Ok("delete_task", task_id, "Task deleted")
    /\ UNCHANGED <<projects, sprints, now, requests>>

\* db.query(Task).filter(Task.sprint_id == sprint_id).all()
TasksOfSprint(sprint_id) ==
    LET ids == IdList({i \in DOMAIN tasks : tasks[i].sprint_id = sprint_id})
    IN [k \in 1..Len(ids) |-> tasks[ids[k]]]

----------------------------------------------------------------------------
(* Projects *)

\* ProjectResponse built from the ORM row
ProjectResponse(p) ==
    [id |-> p.id, name |-> p.name, description |-> p.description,
     status |-> p.status, start_date |-> p.start_date, end_date |-> p.end_date,
     created_at |-> p.created_at]

\* ProjectCreate: name is the one required field
ProjectPayloadValid(project) == project.name # UnsetStr

\* projects.name is unique: the commit raises IntegrityError when another row
\* has the name
NameTaken(name, except_id) ==
    \E i \in DOMAIN projects \ {except_id} : projects[i].name = name

\* project: a ProjectCreate payload [name, description, status, start_date, end_date]
create_project(project) ==
    /\ IF ~ProjectPayloadValid(project)
       THEN /\ response' = HTTPException("create_project", None, 422, "field required")
            /\ UNCHANGED projects
       ELSE IF NameTaken(project.name, None)
       THEN /\ response' = HTTPException("create_project", None, 500, "IntegrityError")
            /\ UNCHANGED projects
       ELSE \* Project(**project.dict()): a field that was not sent has the
            \* default of ProjectBase
            LET id == NextId(projects)
                db_project == [id |-> id,
                               name |-> project.name,
                               description |-> AttrStr(project.description, NoneStr),
                               status |-> AttrStr(project.status, "Ativo"),
                               start_date |-> Attr(project.start_date, None),
                               end_date |-> Attr(project.end_date, None),
                               created_at |-> now]
            IN /\ projects' = [i \in DOMAIN projects \cup {id} |->
                                 IF i = id THEN db_project ELSE projects[i]]
               /\ response' = Ok("create_project", id, ProjectResponse(db_project))
    /\ UNCHANGED <<sprints, tasks, now, requests>>

get_project(project_id) ==
    /\ response' = IF project_id \notin DOMAIN projects
                   THEN HTTPException("get_project", project_id, 404, "Project not found")
                   ELSE Ok("get_project", project_id, ProjectResponse(projects[project_id]))
    /\ UNCHANGED <<projects, sprints, tasks, now, requests>>

\* project_data: a ProjectCreate payload
update_project(project_id, project_data) ==
    /\ IF ~ProjectPayloadValid(project_data)
       THEN /\ response' = HTTPException("update_project", project_id, 422, "field required")
            /\ UNCHANGED projects
       ELSE IF project_id \notin DOMAIN projects
       THEN /\ response' = HTTPException("update_project", project_id, 404, "Project not found")
            /\ UNCHANGED projects
       ELSE IF NameTaken(project_data.name, project_id)
       THEN /\ response' = HTTPException("update_project", project_id, 500, "IntegrityError")
            /\ UNCHANGED projects
       ELSE \* for key, value in project_data.dict().items(): setattr(...)
            \* dict() holds every field of ProjectBase, a field that was not
            \* sent with its default
            LET db_project == projects[project_id]
                updated == [id |-> db_project.id,
                            name |-> project_data.name,
                            description |-> AttrStr(project_data.description, NoneStr),
                            status |-> AttrStr(project_data.status, "Ativo"),
                            start_date |-> Attr(project_data.start_date, None),
                            end_date |-> Attr(project_data.end_date, None),
                            created_at |-> db_project.created_at]
            IN /\ projects' = [projects EXCEPT ![project_id] = updated]
               /\ response' = Ok("update_project", project_id, ProjectResponse(updated))
    /\ UNCHANGED <<sprints, tasks, now, requests>>

\* db.delete(db_project): Project.sprints has no delete cascade, so the unit of
\* work sets the project_id of the project's sprints to NULL
delete_project(project_id) ==
    /\ IF project_id \notin DOMAIN projects
       THEN /\ response' = HTTPException("delete_project", project_id, 404, "Project not found")
            /\ UNCHANGED <<projects, sprints>>
       ELSE /\ projects' = [i \in DOMAIN projects \ {project_id} |-> projects[i]]
            /\ sprints' = [i \in DOMAIN sprints |->
                              IF sprints[i].project_id = project_id
                              THEN [sprints[i] EXCEPT !.project_id = None]
                              ELSE sprints[i]]
            /\ response' = Ok("delete_project", project_id, "Project deleted successfully")
    /\ UNCHANGED <<tasks, now, requests>>

\* the first list_projects, registered on GET /projects before the project
\* endpoints: the distinct project names of the tasks, None and "" left out
list_projects ==
    /\ LET names == {tasks[i].project : i \in DOMAIN tasks} \ {NoneStr, ""}
           ids == IdList({i \in DOMAIN tasks :
                            /\ tasks[i].project \in names
                            /\ \A j \in DOMAIN tasks :
                                  tasks[j].project = tasks[i].project => i <= j})
       IN response' = Ok("list_projects", None,
                         [k \in 1..Len(ids) |-> tasks[ids[k]].project])
    /\ UNCHANGED <<projects, sprints, tasks, now, requests>>

\* the second list_projects, registered on GET /projects among the project
\* endpoints: the rows of the projects table
list_project_rows ==
    /\ LET ids == IdList(DOMAIN projects)
       IN response' = Ok("list_project_rows", None,
                         [k \in 1..Len(ids) |-> ProjectResponse(projects[ids[k]])])
    /\ UNCHANGED <<projects, sprints, tasks, now, requests>>

\* the handlers registered on GET /projects, in the order of registration
GetProjectsRoutes == <<"list_projects", "list_project_rows">>

\* the router hands a request to the first route that matches it
get_projects ==
    IF Head(GetProjectsRoutes) = "list_projects" THEN list_projects ELSE list_project_rows

\* db.query(Sprint).filter(Sprint.project_id == project_id).all() returned as
\* List[SprintResponse]: the rows have no status_calculado
get_project_sprints(project_id) ==
    /\ LET ids == IdList({i \in DOMAIN sprints : sprints[i].project_id = project_id})
       IN response' = Ok("get_project_sprints", project_id,
                         [k \in 1..Len(ids) |->
                             [id |-> sprints[ids[k]].id, name |-> sprints[ids[k]].name,
                              start_date |-> sprints[ids[k]].start_date,
                              end_date |-> sprints[ids[k]].end_date,
                              status |-> sprints[ids[k]].status,
                              project_id |-> sprints[ids[k]].project_id,
                              status_calculado |-> NoneStr]])
    /\ UNCHANGED <<projects, sprints, tasks, now, requests>>

\* db.query(Task).join(Sprint).filter(Sprint.project_id == project_id).all()
\* returned as List[TaskResponse]
get_project_tasks(project_id) ==
    /\ LET ids == IdList({i \in DOMAIN tasks :
                             /\ tasks[i].sprint_id \in DOMAIN sprints
                             /\ sprints[tasks[i].sprint_id].project_id = project_id})
       IN response' =
            IF \E i \in DOMAIN tasks :
                  /\ tasks[i].sprint_id \in DOMAIN sprints
                  /\ sprints[tasks[i].sprint_id].project_id = project_id
                  /\ (tasks[i].status = NoneStr \/ tasks[i].title = NoneStr)
            THEN HTTPException("get_project_tasks", project_id, 500, "ResponseValidationError")
            ELSE Ok("get_project_tasks", project_id,
                    [k \in 1..Len(ids) |-> TaskResponse(tasks[ids[k]])])
    /\ UNCHANGED <<projects, sprints, tasks, now, requests>>

----------------------------------------------------------------------------
(* Burndown *)

SprintDaysNoLast(sprint) ==
    [k \in 1..(Date(sprint.end_date) - Date(sprint.start_date)) |->
        Date(sprint.start_date) + k - 1]

RECURSIVE DaysFrom(_, _)
DaysFrom(current, last) ==
    IF current <= last THEN <<current>> \o DaysFrom(current + 1, last) ELSE <<>>

\* the list of the sprint's dates: while current <= sprint.end_date.date()
SprintDays(sprint) == DaysFrom(Date(sprint.start_date), Date(sprint.end_date))

PointsOrZeroRaw(t) == t.points

\* t.points if t.points else 0
PointsOrZero(t) == IF Truthy(t.points) THEN t.points ELSE 0

IsRemainingOnOrAfter(t, day) ==
    ~IsSet(t.completed_at) \/ Date(t.completed_at) >= day

IsRemainingInverted(t, day) ==
    IsSet(t.completed_at) /\ Date(t.completed_at) <= day

\* completed = t.completed_at.date() if t.completed_at else None
\* if not completed or completed > day
IsRemaining(t, day) ==
    LET completed == IF IsSet(t.completed_at) THEN Date(t.completed_at) ELSE None
    IN completed = None \/ completed > day

\* the inner loop over the sprint's tasks for one day
RECURSIVE BurndownDay(_, _, _, _)
BurndownDay(ts, day, remaining_tasks, remaining_points) ==
    IF ts = <<>>
    THEN [date |-> day, remaining_tasks |-> remaining_tasks,
          remaining_points |-> remaining_points]
    ELSE IF IsRemaining(Head(ts), day)
    THEN BurndownDay(Tail(ts), day, remaining_tasks + 1,
                     remaining_points + PointsOrZero(Head(ts)))
    ELSE BurndownDay(Tail(ts), day, remaining_tasks, remaining_points)

burndown_chart(sprint_id) ==
    /\ response' =
         IF sprint_id \notin DOMAIN sprints
         THEN HTTPException("burndown_chart", sprint_id, 404, "Sprint not found")
         ELSE LET ts == TasksOfSprint(sprint_id)
                  days == SprintDays(sprints[sprint_id])
              IN Ok("burndown_chart", sprint_id,
                    [k \in 1..Len(days) |-> BurndownDay(ts, days[k], 0, 0)])
    /\ UNCHANGED <<projects, sprints, tasks, now, requests>>

----------------------------------------------------------------------------
(* Cumulative flow diagram *)

CfdStatusByStart(t, day) ==
    IF IsSet(t.started_at) /\ Date(t.started_at) <= day THEN "Doing"
    ELSE IF IsSet(t.completed_at) /\ Date(t.completed_at) <= day THEN "Done"
    ELSE "To Do"

\* the status of a task on a day
CfdStatus(t, day) ==
    IF IsSet(t.completed_at) /\ Date(t.completed_at) <= day THEN "Done"
    ELSE IF IsSet(t.started_at) /\ Date(t.started_at) <= day THEN "Doing"
    ELSE "To Do"

\* status_count[status] += 1
CfdCount(status_count, status) ==
    [status_count EXCEPT ![status] = @ + 1]

\* the inner loop over the sprint's tasks for one day
RECURSIVE CfdDay(_, _, _)
CfdDay(ts, day, status_count) ==
    IF ts = <<>>
    THEN [date |-> day, ToDo |-> status_count["To Do"],
          Doing |-> status_count["Doing"], Done |-> status_count["Done"]]
    ELSE CfdDay(Tail(ts), day, CfdCount(status_count, CfdStatus(Head(ts), day)))

cfd_chart(sprint_id) ==
    /\ response' =
         IF sprint_id \notin DOMAIN sprints
         THEN HTTPException("cfd_chart", sprint_id, 404, "Sprint not found")
         ELSE LET ts == TasksOfSprint(sprint_id)
                  days == SprintDays(sprints[sprint_id])
              IN Ok("cfd_chart", sprint_id,
                    [k \in 1..Len(days) |->
                        CfdDay(ts, days[k], [b \in AllowedStatus |-> 0])])
    /\ UNCHANGED <<projects, sprints, tasks, now, requests>>

----------------------------------------------------------------------------
(* Velocity *)

\* if t.completed_at and t.sprint_id in sprint_map
VelocityCounted(t) ==
    IsSet(t.completed_at) /\ t.sprint_id \in DOMAIN sprints

\* velocity[t.sprint_id][...] += ...: a key that is missing starts from the
\* defaultdict's zero entry
VelocityAdd(velocity, t) ==
    LET old == IF t.sprint_id \in DOMAIN velocity THEN velocity[t.sprint_id]
               ELSE [completed_tasks |-> 0, completed_points |-> 0, sprint_name |-> ""]
        new == [completed_tasks |-> old.completed_tasks + 1,
                completed_points |-> old.completed_points + PointsOrZero(t),
                sprint_name |-> sprints[t.sprint_id].name]
    IN [k \in DOMAIN velocity \cup {t.sprint_id} |->
           IF k = t.sprint_id THEN new ELSE velocity[k]]

\* the loop over the tasks that have a sprint_id
RECURSIVE VelocityFold(_, _)
VelocityFold(ts, velocity) ==
    IF ts = <<>> THEN velocity
    ELSE IF VelocityCounted(Head(ts))
    THEN VelocityFold(Tail(ts), VelocityAdd(velocity, Head(ts)))
    ELSE VelocityFold(Tail(ts), velocity)

RECURSIVE SortedKeysDescending(_)
SortedKeysDescending(S) ==
    IF S = {} THEN <<>> ELSE <<Max(S)>> \o SortedKeysDescending(S \ {Max(S)})

\* sorted(velocity.items()): the keys are distinct, so the order is by key
SortedKeys(S) == IdList(S)

velocity_chart ==
    /\ response' =
         LET ids == IdList({i \in DOMAIN tasks : tasks[i].sprint_id # None})
             ts == [k \in 1..Len(ids) |-> tasks[ids[k]]]
             velocity == VelocityFold(ts, <<>>)
             keys == SortedKeys(DOMAIN velocity)
         IN Ok("velocity_chart", None,
               [k \in 1..Len(keys) |->
                   [sprint_id |-> keys[k],
                    sprint_name |-> velocity[keys[k]].sprint_name,
                    completed_tasks |-> velocity[keys[k]].completed_tasks,
                    completed_points |-> velocity[keys[k]].completed_points]])
    /\ UNCHANGED <<projects, sprints, tasks, now, requests>>

----------------------------------------------------------------------------
(* Status summary of a sprint *)

SummaryBucketDropUnknown(status) ==
    IF status \in AllowedStatus THEN status ELSE "Unknown"

\* status = t.status if t.status in summary else "To Do"
SummaryBucket(status) ==
    IF status \in AllowedStatus THEN status ELSE "To Do"

\* the loop over the sprint's tasks
RECURSIVE SummaryFold(_, _, _, _)
SummaryFold(ts, summary, total_tasks, total_points) ==
    IF ts = <<>>
    THEN [ToDo |-> summary["To Do"], Doing |-> summary["Doing"],
          Done |-> summary["Done"],
          total_tasks |-> total_tasks, total_points |-> total_points]
    ELSE LET t == Head(ts)
             status == SummaryBucket(t.status)
         IN SummaryFold(Tail(ts),
               [b \in DOMAIN summary |->
                   IF b = status
                   THEN [tasks |-> summary[b].tasks + 1,
                         points |-> summary[b].points + PointsOrZero(t)]
                   ELSE summary[b]],
               total_tasks + 1, total_points + PointsOrZero(t))

\* the handler looks no sprint up: it only filters the tasks by sprint_id
sprint_summary(sprint_id) ==
    /\ response' = Ok("sprint_summary", sprint_id,
          SummaryFold(TasksOfSprint(sprint_id),
                      [b \in AllowedStatus |-> [tasks |-> 0, points |-> 0]], 0, 0))
    /\ UNCHANGED <<projects, sprints, tasks, now, requests>>

----------------------------------------------------------------------------
(* Lead time and cycle time.  A statistic is <<v>> with v in hundredths of  *)
(* an hour, Null for JSON null, and Raised when statistics raises            *)
(* StatisticsError.                                                          *)

Null == <<>>
Raised == <<0, 0>>
IsNull(x) == Len(x) = 0
IsRaised(x) == Len(x) = 2

\* round(num / den, 2) of a value in hundredths: to nearest, ties to even
RoundDiv(num, den) ==
    LET q == num \div den
        r == num % den
    IN IF 2 * r < den THEN q
       ELSE IF 2 * r > den THEN q + 1
       ELSE IF q % 2 = 0 THEN q ELSE q + 1

RECURSIVE Sum(_)
Sum(xs) == IF xs = <<>> THEN 0 ELSE Head(xs) + Sum(Tail(xs))

RECURSIVE Insert(_, _)
Insert(x, xs) ==
    IF xs = <<>> THEN <<x>>
    ELSE IF x <= Head(xs) THEN <<x>> \o xs
    ELSE <<Head(xs)>> \o Insert(x, Tail(xs))

RECURSIVE Sorted(_)
Sorted(xs) == IF xs = <<>> THEN <<>> ELSE Insert(Head(xs), Sorted(Tail(xs)))

\* round(statistics.mean(xs), 2), xs in hours
Mean(xs) ==
    IF xs = <<>> THEN Raised ELSE <<RoundDiv(Sum(xs) * 100, Len(xs))>>

\* round(statistics.median(xs), 2), xs in hours
Median(xs) ==
    IF xs = <<>> THEN Raised
    ELSE LET data == Sorted(xs)
             n == Len(xs)
         IN IF n % 2 = 1 THEN <<data[(n \div 2) + 1] * 100>>
            ELSE <<RoundDiv((data[n \div 2] + data[(n \div 2) + 1]) * 100, 2)>>

MeanUnguarded(xs) == Mean(xs)

\* round(mean(xs), 2) if xs else None
MeanOrNone(xs) == IF xs # <<>> THEN Mean(xs) ELSE Null

\* round(median(xs), 2) if xs else None
MedianOrNone(xs) == IF xs # <<>> THEN Median(xs) ELSE Null

\* (a - b).total_seconds() / 3600.0
Hours(a, b) == (a - b) * HoursPerTick

\* the loop that fills lead_times
RECURSIVE LeadTimes(_)
LeadTimes(ts) ==
    IF ts = <<>> THEN <<>>
    ELSE IF IsSet(Head(ts).completed_at) /\ IsSet(Head(ts).created_at)
    THEN <<Hours(Head(ts).completed_at, Head(ts).created_at)>> \o LeadTimes(Tail(ts))
    ELSE LeadTimes(Tail(ts))

\* the loop that fills cycle_times
RECURSIVE CycleTimes(_)
CycleTimes(ts) ==
    IF ts = <<>> THEN <<>>
    ELSE IF IsSet(Head(ts).completed_at) /\ IsSet(Head(ts).started_at)
    THEN <<Hours(Head(ts).completed_at, Head(ts).started_at)>> \o CycleTimes(Tail(ts))
    ELSE CycleTimes(Tail(ts))

\* the handler looks no sprint up: it only filters the tasks by sprint_id and
\* completed_at
sprint_leadtime(sprint_id) ==
    /\ response' =
         LET ids == IdList({i \in DOMAIN tasks :
                               /\ tasks[i].sprint_id = sprint_id
                               /\ tasks[i].completed_at # None})
             ts == [k \in 1..Len(ids) |-> tasks[ids[k]]]
             lead_times == LeadTimes(ts)
             cycle_times == CycleTimes(ts)
             body == [lead_time_avg |-> MeanOrNone(lead_times),
                      cycle_time_avg |-> MeanOrNone(cycle_times),
                      lead_time_median |-> MedianOrNone(lead_times),
                      cycle_time_median |-> MedianOrNone(cycle_times)]
         IN IF \/ IsRaised(body.lead_time_avg) \/ IsRaised(body.cycle_time_avg)
               \/ IsRaised(body.lead_time_median) \/ IsRaised(body.cycle_time_median)
            THEN HTTPException("sprint_leadtime", sprint_id, 500, "StatisticsError")
            ELSE Ok("sprint_leadtime", sprint_id, body)
    /\ UNCHANGED <<projects, sprints, tasks, now, requests>>

----------------------------------------------------------------------------
(* Demonstration data.  The seeding endpoints write rows through the ORM,  *)
(* past the validators of TaskCreate.  A random draw is a choice; of a     *)
(* range of numbers the model draws the two ends.                          *)

\* timedelta(days=k)
Days(k) == k * TicksPerDay

ProjectDays == 90
SprintSpacingDays == 14
SprintLengthDays == 13
MoreProjectDaysBack == 60
MoreProjectDays == 120
MoreCurrentDaysBack == 7
MoreMaxDaysToComplete == 7

\* statuses = ["A Fazer", "Em Andamento", "Concluído"]
SeedStatuses == {"A Fazer", "Em Andamento", "Concluído"}

\* random.choice(priorities), random.choice([1, 2, 3, 5, 8]),
\* random.randint(1, 5)
DemoDraws ==
    [status : SeedStatuses, priority : AllowedPriority, points : {1, 8}, days : {1, 5}]

\* the k-th task of seed_demo_data, counted from 0 over all sprints
DemoTask(id, k, first_sprint, project_id, today, draw) ==
    LET j == k \div SeedTasksPerSprint
        i == k % SeedTasksPerSprint
        started == draw.status \in {"Em Andamento", "Concluído"}
    IN [id |-> id,
        title |-> "Tarefa " \o ToString(i + 1) \o " do Sprint " \o ToString(j + 1),
        description |-> "Esta é uma tarefa de demonstração",
        status |-> draw.status,
        project |-> ToString(project_id),
        sprint_id |-> first_sprint + j,
        points |-> draw.points,
        priority |-> draw.priority,
        created_at |-> today,
        started_at |-> IF started THEN today - Days(draw.days) ELSE None,
        completed_at |-> IF draw.status = "Concluído" THEN today ELSE None]

seed_demo_data ==
    LET today == now
        existing == {i \in DOMAIN projects : projects[i].name = "Projeto Demonstração"}
        project_id == IF existing # {} THEN Min(existing) ELSE NextId(projects)
        project_data == [id |-> project_id, name |-> "Projeto Demonstração",
                         description |-> "Um projeto de demonstração",
                         status |-> "Ativo", start_date |-> today,
                         end_date |-> today + Days(ProjectDays), created_at |-> today]
        existing_sprints == {i \in DOMAIN sprints : sprints[i].project_id = project_id}
        kept_sprints == DOMAIN sprints \ existing_sprints
        kept_tasks == {i \in DOMAIN tasks : tasks[i].sprint_id \notin existing_sprints}
        first_sprint == IF kept_sprints = {} THEN 1 ELSE Max(kept_sprints) + 1
        first_task == IF kept_tasks = {} THEN 1 ELSE Max(kept_tasks) + 1
        tasks_count == SeedSprints * SeedTasksPerSprint
    IN /\ projects' =
             IF existing # {}
             THEN [projects EXCEPT ![project_id].start_date = today,
                                   ![project_id].end_date = today + Days(ProjectDays),
                                   ![project_id].status = "Ativo"]
             ELSE [i \in DOMAIN projects \cup {project_id} |->
                     IF i = project_id THEN project_data ELSE projects[i]]
       /\ sprints' =
             [id \in kept_sprints \cup (first_sprint..(first_sprint + SeedSprints - 1)) |->
                 IF id \in kept_sprints THEN sprints[id]
                 ELSE LET i == id - first_sprint
                          sprint_start == today + Days(i * SprintSpacingDays)
                      IN [id |-> id, name |-> "Sprint " \o ToString(i + 1),
                          start_date |-> sprint_start,
                          end_date |-> sprint_start + Days(SprintLengthDays),
                          status |-> IF i = 0 THEN "Ativo" ELSE "Planejado",
                          project_id |-> project_id]]
       /\ \E draw \in [0..(tasks_count - 1) -> DemoDraws] :
             tasks' =
               [id \in kept_tasks \cup (first_task..(first_task + tasks_count - 1)) |->
                   IF id \in kept_tasks THEN tasks[id]
                   ELSE DemoTask(id, id - first_task, first_sprint, project_id, today,
                                 draw[id - first_task])]
       /\ response' = Ok("seed_demo_data", project_id,
                         [success |-> TRUE, sprints_count |-> SeedSprints,
                          tasks_count |-> tasks_count])
       /\ UNCHANGED <<now, requests>>

\* the dates and the status of the i-th sprint of seed_more_data
MoreSprint(id, i, project_id, today) ==
    LET two_months_ago == today - Days(MoreProjectDaysBack)
        sprint_start == IF i < 2 THEN two_months_ago + Days(i * SprintSpacingDays)
                        ELSE IF i = 2 THEN today - Days(MoreCurrentDaysBack)
                        ELSE today + Days((i - 3) * SprintSpacingDays + MoreCurrentDaysBack)
    IN [id |-> id, name |-> "Sprint " \o ToString(i + 1),
        start_date |-> sprint_start,
        end_date |-> sprint_start + Days(SprintLengthDays),
        status |-> IF i < 2 THEN "Concluído" ELSE IF i = 2 THEN "Ativo" ELSE "Planejado",
        project_id |-> project_id]

\* status_options[sprint.status]
StatusOptions(sprint_status) ==
    IF sprint_status = "Planejado" THEN {"A Fazer"} ELSE SeedStatuses

\* random.choice(["Baixa", "Média", "Alta"]), random.choice([1, 2, 3, 5, 8, 13]),
\* random.randint(0, 3), and whether random.randint(1, min(days_until_end, 7))
\* is its least or its greatest value
MoreDraws ==
    [status : SeedStatuses, priority : {"Baixa", "Mu00e9dia", "Alta"}, points : {1, 13},
     offset : {0, 3}, longest : BOOLEAN]

\* a task of seed_more_data; of the drawn titles the model writes one
MoreTask(id, sprint, project_id, today, draw) ==
    LET started == draw.status \in {"Em Andamento", "Concluído"}
        started_at == IF started THEN sprint.start_date + Days(draw.offset) ELSE None
        days_until_end == (sprint.end_date - started_at) \div TicksPerDay
        days_to_complete == IF draw.longest
                            THEN Min({days_until_end, MoreMaxDaysToComplete})
                            ELSE 1
    IN [id |-> id,
        title |-> "Desenvolver dashboard",
        description |-> "Esta tarefa envolve desenvolver dashboard",
        status |-> draw.status,
        project |-> ToString(project_id),
        sprint_id |-> sprint.id,
        points |-> draw.points,
        priority |-> draw.priority,
        created_at |-> today,
        started_at |-> started_at,
        completed_at |-> IF draw.status # "Concluído" THEN None
                         ELSE IF days_until_end > 0
                         THEN started_at + Days(days_to_complete)
                         ELSE sprint.end_date]

seed_more_data ==
    LET today == now
        project_name == "Projeto Desenvolvimento " \o ToString(Date(today))
        existing == {i \in DOMAIN projects : projects[i].name = project_name}
        project_id == IF existing # {} THEN Min(existing) ELSE NextId(projects)
        project == [id |-> project_id, name |-> project_name,
                    description |-> "Um projeto de desenvolvimento",
                    status |-> "Ativo",
                    start_date |-> today - Days(MoreProjectDaysBack),
                    end_date |-> today + Days(MoreProjectDays), created_at |-> today]
        first_sprint == NextId(sprints)
        new_sprints == first_sprint..(first_sprint + MoreSprints - 1)
        first_task == NextId(tasks)
        tasks_count == MoreSprints * SeedTasksPerSprint
        SprintOf(k) == MoreSprint(first_sprint + (k \div SeedTasksPerSprint),
                                  k \div SeedTasksPerSprint, project_id, today)
    IN /\ projects' =
             IF existing # {} THEN projects
             ELSE [i \in DOMAIN projects \cup {project_id} |->
                     IF i = project_id THEN project ELSE projects[i]]
       /\ sprints' =
             [id \in DOMAIN sprints \cup new_sprints |->
                 IF id \in DOMAIN sprints THEN sprints[id]
                 ELSE MoreSprint(id, id - first_sprint, project_id, today)]
       /\ \E draw \in [0..(tasks_count - 1) -> MoreDraws] :
             /\ \A k \in 0..(tasks_count - 1) :
                   draw[k].status \in StatusOptions(SprintOf(k).status)
             /\ tasks' =
                   [id \in DOMAIN tasks \cup (first_task..(first_task + tasks_count - 1)) |->
                       IF id \in DOMAIN tasks THEN tasks[id]
                       ELSE MoreTask(id, SprintOf(id - first_task), project_id, today,
                                     draw[id - first_task])]
       /\ response' = Ok("seed_more_data", project_id,
                         [success |-> TRUE, sprints_count |-> MoreSprints,
                          tasks_count |-> tasks_count])
       /\ UNCHANGED <<now, requests>>

----------------------------------------------------------------------------
(* update_task, statement by statement.  Each request has a session of its *)
(* own: the row it read is a copy, the stamp and the setattr loop change   *)
(* the copy, and the commit writes the columns that changed to the row of  *)
(* the store.  The path operations are run in a thread pool, so the        *)
(* statements of two requests are interleaved.                             *)

\* for key, value in update_data.items(): setattr(db_task, key, value)
SetAttrs(db_task, task) ==
    [id |-> db_task.id,
     title |-> SetAttrStr(db_task.title, task.title),
     description |-> SetAttrStr(db_task.description, task.description),
     status |-> SetAttrStr(db_task.status, task.status),
     project |-> SetAttrStr(db_task.project, task.project),
     sprint_id |-> SetAttr(db_task.sprint_id, task.sprint_id),
     points |-> SetAttr(db_task.points, task.points),
     priority |-> SetAttrStr(db_task.priority, task.priority),
     created_at |-> db_task.created_at,
     started_at |-> SetAttr(db_task.started_at, task.started_at),
     completed_at |-> SetAttr(db_task.completed_at, task.completed_at)]

\* the UPDATE of a commit sets the columns whose value in the session
\* differs from the value that was loaded
Flush(stored, loaded, db_task) ==
    [column \in DOMAIN db_task |->
        IF db_task[column] = loaded[column] THEN stored[column] ELSE db_task[column]]

\* db_task = db.query(Task).filter(Task.id == task_id).first()
update_task_query(r, task_id, task) ==
    /\ requests[r].pc = "idle"
    /\ TaskPayloadValid(task)
    /\ IF task_id \notin DOMAIN tasks
       THEN /\ response' = HTTPException("update_task", task_id, 404, "Task not found")
            /\ UNCHANGED requests
       ELSE /\ requests' = [requests EXCEPT ![r] =
                               [handler |-> "update_task", pc |-> "queried",
                                db |-> "open", exit |-> "none", task_id |-> task_id,
                                task |-> task, loaded |-> tasks[task_id],
                                db_task |-> tasks[task_id]]]
            /\ UNCHANGED response
    /\ UNCHANGED <<projects, sprints, tasks, now>>

\* status_before, status_after and the stamp of the row of the session
update_task_stamp(r) ==
    /\ requests[r].pc = "queried"
    /\ LET db_task == requests[r].db_task
           status_before == db_task.status
           status_after == SetAttrStr(status_before, requests[r].task.status)
       IN requests' = [requests EXCEPT
                         ![r].pc = "stamped",
                         ![r].db_task.started_at =
                             Stamp(status_before, status_after, db_task.started_at, now)]
    /\ UNCHANGED <<projects, sprints, tasks, now, response>>

\* the setattr loop, db.commit(), db.refresh(db_task) and the return; the
\* UPDATE of a row that is gone raises StaleDataError
update_task_commit(r) ==
    /\ requests[r].pc = "stamped"
    /\ LET task_id == requests[r].task_id
           db_task == SetAttrs(requests[r].db_task, requests[r].task)
       IN IF task_id \notin DOMAIN tasks
          THEN /\ response' = HTTPException("update_task", task_id, 500, "StaleDataError")
               /\ UNCHANGED tasks
          ELSE LET refreshed == Flush(tasks[task_id], requests[r].loaded, db_task)
               IN /\ tasks' = [tasks EXCEPT ![task_id] = refreshed]
                  /\ response' = TaskReply("update_task", task_id, refreshed)
    /\ requests' = [requests EXCEPT ![r] = NoRequest]
    /\ UNCHANGED <<projects, sprints, now>>

----------------------------------------------------------------------------
(* Sessions.  A handler with db: Session = Depends(get_db) runs between    *)
(* the two halves of get_db; migrate_database, seed_demo_data,             *)
(* seed_more_data and diagnostico call SessionLocal() themselves.          *)

GetDbHandlers == {"create_project", "get_task"}
DirectHandlers == {"migrate_database", "seed_demo_data", "seed_more_data", "diagnostico"}

\* the ways a handler with Depends(get_db) ends: it returns, the payload is
\* refused (422), it raises HTTPException(404), or a statement raises (the
\* IntegrityError of a commit, an OperationalError)
ExitPaths == {"success", "validation failure", "not-found", "error"}

\* db = SessionLocal(); try: yield db
get_db_yield(r, handler) ==
    /\ requests[r].pc = "idle"
    /\ requests' = [requests EXCEPT ![r] =
                       [handler |-> handler, pc |-> "handling", db |-> "open",
                        exit |-> "none"]]
    /\ UNCHANGED <<projects, sprints, tasks, now, response>>

\* the path operation ends on one of its exit paths and control returns to
\* get_db
endpoint_exit(r, exit) ==
    /\ requests[r].pc = "handling"
    /\ requests[r].handler \in GetDbHandlers
    /\ requests' = [requests EXCEPT ![r].pc = "exiting", ![r].exit = exit]
    /\ UNCHANGED <<projects, sprints, tasks, now, response>>

\* finally: db.close()
get_db_finally(r) ==
    /\ requests[r].pc = "exiting"
    /\ requests' = [requests EXCEPT ![r].pc = "ended", ![r].db = "closed"]
    /\ UNCHANGED <<projects, sprints, tasks, now, response>>

\* try: ... db = SessionLocal()
direct_open(r, handler) ==
    /\ requests[r].pc = "idle"
    /\ requests' = [requests EXCEPT ![r] =
                       [handler |-> handler, pc |-> "handling", db |-> "open",
                        exit |-> "none"]]
    /\ UNCHANGED <<projects, sprints, tasks, now, response>>

\* the body of the try runs to db.close() and returns the success record
direct_return(r) ==
    /\ requests[r].pc = "handling"
    /\ requests[r].handler \in DirectHandlers
    /\ requests' = [requests EXCEPT ![r].pc = "ended", ![r].db = "closed",
                                    ![r].exit = "success"]
    /\ UNCHANGED <<projects, sprints, tasks, now, response>>

\* a statement between SessionLocal() and db.close() raises: except Exception
\* returns the error record, and no statement of the handler closes db
direct_except(r) ==
    /\ requests[r].pc = "handling"
    /\ requests[r].handler \in DirectHandlers
    /\ requests' = [requests EXCEPT ![r].pc = "ended", ![r].exit = "error"]
    /\ UNCHANGED <<projects, sprints, tasks, now, response>>

----------------------------------------------------------------------------
(* Requests.  Each specification draws its payloads from the sets below and *)
(* caps the number of rows in the store.                                     *)

\* the ids a request may name: those of the rows and one that names no row
Ids(table) == DOMAIN table \cup {NextId(table)}

\* a datetime on every day of the calendar, none of them at midnight
TaskTimes == {t \in Times : t % TicksPerDay = TicksPerDay - 1}

SprintPayload(name, start_date, end_date) ==
    [name |-> name, start_date |-> start_date, end_date |-> end_date,
     status |-> "Ativo", project_id |-> None]

TaskPayload(status, sprint_id, points, started_at, completed_at) ==
    [title |-> "T", description |-> UnsetStr, status |-> status,
     project |-> UnsetStr, sprint_id |-> sprint_id, points |-> points,
     priority |-> UnsetStr, started_at |-> started_at,
     completed_at |-> completed_at]

\* the ids of the model end at the bound
SprintsFull == NextId(sprints) > MaxSprints
TasksFull == NextId(tasks) > MaxTasks
ProjectsFull == NextId(projects) > MaxProjects

ProjectPayload(name, description, status, start_date, end_date) ==
    [name |-> name, description |-> description, status |-> status,
     start_date |-> start_date, end_date |-> end_date]

(* The sprint calendar: sprints with any start and end, at any time *)

Next ==
    \/ Tick
    \/ /\ NextId(sprints) <= MaxCalendarSprints
       /\ \E start_date \in Times, end_date \in Times :
             create_sprint(SprintPayload("Sprint 1", start_date, end_date))
    \/ list_sprints
    \/ \E sprint_id \in Ids(sprints) : get_sprint(sprint_id)
    \/ \E sprint_id \in Ids(sprints) : burndown_chart(sprint_id)

Spec == Init /\ [][Next]_vars

----------------------------------------------------------------------------
(* The charts of one sprint over a changing set of tasks *)

\* a TaskUpdate payload that sends no field
NoUpdate ==
    [title |-> UnsetStr, description |-> UnsetStr, status |-> UnsetStr,
     project |-> UnsetStr, sprint_id |-> Unset, points |-> Unset,
     priority |-> UnsetStr, started_at |-> Unset, completed_at |-> Unset]

\* a sprint over the whole calendar, and one that is its second day
ChartSprints ==
    {SprintPayload("Sprint 1", 0, MaxTime),
     SprintPayload("Sprint 1", TicksPerDay + 1, 2 * TicksPerDay - 1)}

\* the charts are those of one sprint
ChartSprintRequests ==
    /\ DOMAIN sprints = {}
    /\ \E sprint \in ChartSprints : create_sprint(sprint)

BurndownTasks ==
    {TaskPayload("To Do", sprint_id, points, Unset, completed_at) :
        sprint_id \in {Unset, 1}, points \in {Unset} \cup 1..MaxPoints,
        completed_at \in {Unset} \cup TaskTimes}

BurndownUpdates ==
    {[NoUpdate EXCEPT !.completed_at = t] : t \in TaskTimes}
    \cup {[NoUpdate EXCEPT !.points = MaxPoints], [NoUpdate EXCEPT !.sprint_id = 1]}

NextBurndown ==
    \/ ChartSprintRequests
    \/ ~TasksFull /\ \E task \in BurndownTasks : create_task(task)
    \/ \E task_id \in Ids(tasks), task \in BurndownUpdates : update_task(task_id, task)
    \/ \E task_id \in Ids(tasks) : delete_task(task_id)
    \/ \E sprint_id \in Ids(sprints) : burndown_chart(sprint_id)

SpecBurndown == Init /\ [][NextBurndown]_vars

\* datetimes of the first and of the second day
CfdTimes == {TicksPerDay - 1, 2 * TicksPerDay - 1}

CfdTasks ==
    {TaskPayload("To Do", sprint_id, Unset, started_at, completed_at) :
        sprint_id \in {Unset, 1}, started_at \in {Unset} \cup CfdTimes,
        completed_at \in {Unset} \cup CfdTimes}

CfdUpdates ==
    {[NoUpdate EXCEPT !.completed_at = t] : t \in CfdTimes}
    \cup {[NoUpdate EXCEPT !.started_at = t] : t \in CfdTimes}
    \cup {[NoUpdate EXCEPT !.sprint_id = 1]}

NextCfd ==
    \/ ChartSprintRequests
    \/ ~TasksFull /\ \E task \in CfdTasks : create_task(task)
    \/ \E task_id \in Ids(tasks), task \in CfdUpdates : update_task(task_id, task)
    \/ \E task_id \in Ids(tasks) : delete_task(task_id)
    \/ \E sprint_id \in Ids(sprints) : cfd_chart(sprint_id)

SpecCfd == Init /\ [][NextCfd]_vars

(* Velocity over several sprints *)

\* the client names the sprints in sequence
SprintNames == <<"Sprint 1", "Sprint 2", "Sprint 3", "Sprint 4">>

VelocityTasks ==
    {TaskPayload("To Do", sprint_id, points, Unset, completed_at) :
        sprint_id \in {Unset} \cup 1..MaxSprints, points \in {Unset} \cup 1..MaxPoints,
        completed_at \in {Unset, MaxTime}}

\* an update may name a sprint that does not exist: update_task looks none up
VelocityUpdates ==
    {[NoUpdate EXCEPT !.sprint_id = MaxSprints + 1],
     [NoUpdate EXCEPT !.completed_at = MaxTime],
     [NoUpdate EXCEPT !.points = MaxPoints]}

NextVelocity ==
    \/ /\ ~SprintsFull
       /\ create_sprint(SprintPayload(SprintNames[NextId(sprints)], 0, MaxTime))
    \/ ~TasksFull /\ \E task \in VelocityTasks : create_task(task)
    \/ \E task_id \in Ids(tasks), task \in VelocityUpdates : update_task(task_id, task)
    \/ \E task_id \in Ids(tasks) : delete_task(task_id)
    \/ velocity_chart

SpecVelocity == Init /\ [][NextVelocity]_vars

(* The status summary of one sprint: tasks of every status, with and      *)
(* without points; a task created without a status has none                *)

SummaryTasks ==
    {TaskPayload(status, sprint_id, points, Unset, Unset) :
        status \in {UnsetStr} \cup AllowedStatus, sprint_id \in {Unset, 1},
        points \in {Unset, MaxPoints}}

SummaryUpdates ==
    {[NoUpdate EXCEPT !.status = status] : status \in AllowedStatus}
    \cup {[NoUpdate EXCEPT !.points = MaxPoints]}

NextSummary ==
    \/ ChartSprintRequests
    \/ ~TasksFull /\ \E task \in SummaryTasks : create_task(task)
    \/ \E task_id \in Ids(tasks), task \in SummaryUpdates : update_task(task_id, task)
    \/ \E task_id \in Ids(tasks) : delete_task(task_id)
    \/ \E sprint_id \in Ids(sprints) : sprint_summary(sprint_id)

SpecSummary == Init /\ [][NextSummary]_vars

(* The reports of one sprint over tasks with start and completion times;   *)
(* every task is created at time 0                                         *)

LeadtimeTasks ==
    {TaskPayload("To Do", sprint_id, Unset, started_at, completed_at) :
        sprint_id \in {Unset, 1}, started_at \in {Unset, TicksPerDay - 1},
        completed_at \in {Unset} \cup TaskTimes}

LeadtimeUpdates ==
    {[NoUpdate EXCEPT !.completed_at = t] : t \in TaskTimes}
    \cup {[NoUpdate EXCEPT !.started_at = TicksPerDay - 1]}

NextLeadtime ==
    \/ ChartSprintRequests
    \/ ~TasksFull /\ \E task \in LeadtimeTasks : create_task(task)
    \/ \E task_id \in Ids(tasks), task \in LeadtimeUpdates : update_task(task_id, task)
    \/ \E task_id \in Ids(tasks) : delete_task(task_id)
    \/ \E sprint_id \in Ids(sprints) : sprint_leadtime(sprint_id)
    \/ \E sprint_id \in Ids(sprints) : sprint_summary(sprint_id)
    \/ \E sprint_id \in Ids(sprints) : burndown_chart(sprint_id)
    \/ \E sprint_id \in Ids(sprints) : cfd_chart(sprint_id)

SpecLeadtime == Init /\ [][NextLeadtime]_vars

(* Payloads the validators accept and payloads they refuse *)

ValidationTasks ==
    {[TaskPayload(status, Unset, points, Unset, Unset) EXCEPT !.priority = priority] :
        status \in {"To Do", "Blocked"}, points \in {Unset, BelowZero},
        priority \in {UnsetStr, "Urgent"}}

\* an update sends one field, with a value that is accepted or refused
ValidationUpdates ==
    {[NoUpdate EXCEPT !.status = status] : status \in {"Doing", "Blocked"}}
    \cup {[NoUpdate EXCEPT !.points = points] : points \in {MaxPoints, BelowZero}}
    \cup {[NoUpdate EXCEPT !.priority = priority] : priority \in {"Alta", "Urgent"}}

NextValidation ==
    \/ ~TasksFull /\ \E task \in ValidationTasks : create_task(task)
    \/ \E task_id \in Ids(tasks), task \in ValidationUpdates : update_task(task_id, task)
    \/ \E task_id \in Ids(tasks) : delete_task(task_id)

SpecValidation == Init /\ [][NextValidation]_vars

(* The start stamp of one task over time: the client moves the task        *)
(* between the statuses and may send a started_at of its own, or null      *)

StampTasks ==
    {TaskPayload(status, Unset, Unset, started_at, Unset) :
        status \in {"To Do", "Doing"}, started_at \in {Unset} \cup TaskTimes}

StampUpdates ==
    {[NoUpdate EXCEPT !.status = status, !.started_at = started_at] :
        status \in {UnsetStr} \cup AllowedStatus,
        started_at \in {Unset, None} \cup TaskTimes}

NextStamp ==
    \/ Tick
    \/ DOMAIN tasks = {} /\ \E task \in StampTasks : create_task(task)
    \/ \E task_id \in Ids(tasks), task \in StampUpdates : update_task(task_id, task)
    \/ \E task_id \in Ids(tasks) : delete_task(task_id)

SpecStamp == Init /\ [][NextStamp]_vars

(* Updates of projects and of tasks that send some of the fields *)

ProjectNames == <<"Project 1", "Project 2", "Project 3", "Project 4">>

PartialProjects ==
    {ProjectPayload(ProjectNames[NextId(projects)], description, "Pausado", start_date, Unset) :
        description \in {UnsetStr, "D"}, start_date \in {Unset, 0}}

\* an update sends the name, which is required, and at most one other field
PartialProjectUpdates ==
    LET name_only == ProjectPayload("Project 1", UnsetStr, UnsetStr, Unset, Unset)
    IN {name_only, [name_only EXCEPT !.name = UnsetStr],
        [name_only EXCEPT !.description = "E"],
        [name_only EXCEPT !.end_date = MaxTime]}

PartialTasks ==
    {TaskPayload("To Do", Unset, points, Unset, MaxTime) : points \in {Unset, MaxPoints}}

PartialTaskUpdates ==
    {NoUpdate, [NoUpdate EXCEPT !.status = "Doing"],
     [NoUpdate EXCEPT !.completed_at = None]}

\* one project and one task at a time
NextPartial ==
    \/ DOMAIN projects = {} /\ \E project \in PartialProjects : create_project(project)
    \/ \E project_id \in Ids(projects), project_data \in PartialProjectUpdates :
          update_project(project_id, project_data)
    \/ \E project_id \in Ids(projects) : delete_project(project_id)
    \/ DOMAIN tasks = {} /\ \E task \in PartialTasks : create_task(task)
    \/ \E task_id \in Ids(tasks), task \in PartialTaskUpdates : update_task(task_id, task)
    \/ \E task_id \in Ids(tasks) : delete_task(task_id)

SpecPartial == Init /\ [][NextPartial]_vars

(* Sprints of a project whose period may be open at either end; the       *)
(* client names the project by an id, which may be 0 or name no row        *)

BoundedProjects ==
    {ProjectPayload(ProjectNames[NextId(projects)], UnsetStr, UnsetStr, start_date, end_date) :
        start_date \in {Unset, 1}, end_date \in {Unset, MaxTime - 1}}

ProjectSprints ==
    {[SprintPayload(SprintNames[NextId(sprints)], start_date, end_date)
         EXCEPT !.project_id = project_id] :
        start_date \in {0, 1}, end_date \in {MaxTime - 1, MaxTime},
        project_id \in {None, 0} \cup Ids(projects)}

\* one project at a time
NextProjectSprints ==
    \/ DOMAIN projects = {} /\ \E project \in BoundedProjects : create_project(project)
    \/ \E project_id \in Ids(projects) : delete_project(project_id)
    \/ ~SprintsFull /\ \E sprint \in ProjectSprints : create_sprint(sprint)
    \/ \E sprint_id \in Ids(sprints) : get_sprint(sprint_id)

SpecProjectSprints == Init /\ [][NextProjectSprints]_vars

(* Tasks of a sprint that begins after the first tick and ends before the *)
(* last one; the client names the sprint by an id, which may be 0 or name  *)
(* no row                                                                  *)

InnerSprintRequests ==
    /\ DOMAIN sprints = {}
    /\ create_sprint(SprintPayload("Sprint 1", 1, MaxTime - 1))

SprintTaskTimes == {Unset, 0, MaxTime}

SprintTasks ==
    {TaskPayload("To Do", sprint_id, Unset, started_at, completed_at) :
        sprint_id \in {Unset, 0} \cup Ids(sprints),
        started_at \in SprintTaskTimes \cup {1}, completed_at \in SprintTaskTimes}

NextSprintTasks ==
    \/ InnerSprintRequests
    \/ ~TasksFull /\ \E task \in SprintTasks : create_task(task)
    \/ \E task_id \in Ids(tasks) : delete_task(task_id)
    \/ \E task_id \in Ids(tasks) : get_task(task_id)

SpecSprintTasks == Init /\ [][NextSprintTasks]_vars

(* One task at a time, in or out of a sprint that ends on the first day,   *)
(* read before and after the end of the sprint                             *)

ShortSprintRequests ==
    /\ DOMAIN projects # {}
    /\ DOMAIN sprints = {}
    /\ create_sprint([SprintPayload("Sprint 1", 0, TicksPerDay - 1) EXCEPT !.project_id = 1])

DelayTasks ==
    {TaskPayload(status, sprint_id, Unset, Unset, Unset) :
        status \in {"To Do", "Done"}, sprint_id \in {Unset} \cup DOMAIN sprints}

DelayUpdates == {[NoUpdate EXCEPT !.status = "Done"], [NoUpdate EXCEPT !.sprint_id = 1]}

NextDelay ==
    \/ Tick
    \/ /\ DOMAIN projects = {}
       /\ create_project(ProjectPayload("Project 1", UnsetStr, UnsetStr, Unset, Unset))
    \/ ShortSprintRequests
    \/ DOMAIN tasks = {} /\ \E task \in DelayTasks : create_task(task)
    \/ \E task_id \in Ids(tasks), task \in DelayUpdates : update_task(task_id, task)
    \/ \E task_id \in Ids(tasks) : delete_task(task_id)
    \/ \E status \in {NoneStr, "To Do"}, sprint \in {None} \cup DOMAIN sprints :
          read_tasks(status, NoneStr, sprint, NoneStr)
    \/ \E task_id \in Ids(tasks) : get_task(task_id)
    \/ \E project_id \in Ids(projects) : get_project_tasks(project_id)

SpecDelay == Init /\ [][NextDelay]_vars

(* One project, its sprints and one task, created and updated *)

EchoProjects ==
    {ProjectPayload("Project 1", description, UnsetStr, Unset, Unset) :
        description \in {UnsetStr, "D"}}

EchoProjectUpdates ==
    {ProjectPayload("Project 1", UnsetStr, status, Unset, end_date) :
        status \in {UnsetStr, "Pausado"}, end_date \in {Unset, MaxTime}}

EchoSprints ==
    {[SprintPayload(SprintNames[NextId(sprints)], 0, MaxTime) EXCEPT !.project_id = project_id] :
        project_id \in {None} \cup Ids(projects)}

EchoTasks ==
    {TaskPayload(status, Unset, points, Unset, Unset) :
        status \in {UnsetStr, "To Do"}, points \in {Unset, MaxPoints}}

EchoUpdates == {[NoUpdate EXCEPT !.status = "Doing"], [NoUpdate EXCEPT !.points = 0]}

NextEcho ==
    \/ DOMAIN projects = {} /\ \E project \in EchoProjects : create_project(project)
    \/ \E project_id \in Ids(projects), project_data \in EchoProjectUpdates :
          update_project(project_id, project_data)
    \/ ~SprintsFull /\ \E sprint \in EchoSprints : create_sprint(sprint)
    \/ \E project_id \in Ids(projects) : get_project_sprints(project_id)
    \/ DOMAIN tasks = {} /\ \E task \in EchoTasks : create_task(task)
    \/ \E task_id \in Ids(tasks), task \in EchoUpdates : update_task(task_id, task)

SpecEcho == Init /\ [][NextEcho]_vars

(* Projects created, renamed and deleted, and tasks that name a project *)

ListedProjects ==
    {ProjectPayload(name, UnsetStr, UnsetStr, Unset, Unset) :
        name \in {ProjectNames[1], ProjectNames[NextId(projects)]}}

ListedProjectUpdates ==
    {ProjectPayload(name, UnsetStr, "Pausado", Unset, Unset) :
        name \in {ProjectNames[1], ProjectNames[MaxProjects + 1]}}

ListedTasks ==
    {[TaskPayload("To Do", Unset, Unset, Unset, Unset) EXCEPT !.project = project] :
        project \in {UnsetStr, ProjectNames[1]}}

NextProjects ==
    \/ ~ProjectsFull /\ \E project \in ListedProjects : create_project(project)
    \/ \E project_id \in Ids(projects), project_data \in ListedProjectUpdates :
          update_project(project_id, project_data)
    \/ \E project_id \in Ids(projects) : delete_project(project_id)
    \/ \E project_id \in Ids(projects) : get_project(project_id)
    \/ DOMAIN tasks = {} /\ \E task \in ListedTasks : create_task(task)
    \/ \E task_id \in Ids(tasks) : delete_task(task_id)
    \/ get_projects

SpecProjects == Init /\ [][NextProjects]_vars

(* Requests served at the same time, each with its session *)

NextSessions ==
    \/ \E r \in 1..MaxRequests, handler \in GetDbHandlers : get_db_yield(r, handler)
    \/ \E r \in 1..MaxRequests, exit \in ExitPaths : endpoint_exit(r, exit)
    \/ \E r \in 1..MaxRequests : get_db_finally(r)
    \/ \E r \in 1..MaxRequests, handler \in DirectHandlers : direct_open(r, handler)
    \/ \E r \in 1..MaxRequests : direct_return(r)
    \/ \E r \in 1..MaxRequests : direct_except(r)

SpecSessions == Init /\ [][NextSessions]_vars

(* Tasks written by the task endpoints and by the seeding endpoints *)

SeedTasks ==
    {TaskPayload(status, Unset, Unset, Unset, Unset) : status \in {UnsetStr, "To Do"}}

\* an update may send null for the status
SeedUpdates == {[NoUpdate EXCEPT !.status = status] : status \in {"Done", NoneStr}}

\* the store holds the tasks of one call at a time: a task is created and
\* the seeding endpoints are called when the store has no task
NextSeed ==
    \/ DOMAIN tasks = {} /\ \E task \in SeedTasks : create_task(task)
    \/ \E task_id \in Ids(tasks), task \in SeedUpdates : update_task(task_id, task)
    \/ \E task_id \in Ids(tasks) : delete_task(task_id)
    \/ DOMAIN tasks = {} /\ seed_demo_data
    \/ DOMAIN tasks = {} /\ DOMAIN sprints = {} /\ seed_more_data

SpecSeed == Init /\ [][NextSeed]_vars

(* Two requests that move a task to Doing at the same time *)

ConcurrentTasks == {TaskPayload("To Do", Unset, Unset, Unset, Unset)}

ConcurrentUpdates == {[NoUpdate EXCEPT !.status = "Doing"]}

NextConcurrent ==
    \/ Tick
    \/ DOMAIN tasks = {} /\ \E task \in ConcurrentTasks : create_task(task)
    \/ \E r \in DOMAIN requests, task_id \in Ids(tasks), task \in ConcurrentUpdates :
          update_task_query(r, task_id, task)
    \/ \E r \in DOMAIN requests : update_task_stamp(r)
    \/ \E r \in DOMAIN requests : update_task_commit(r)

SpecConcurrent == Init /\ [][NextConcurrent]_vars

(* Tasks with and without points, listed and read one by one *)

ListingTasks ==
    {TaskPayload("To Do", Unset, points, started_at, Unset) :
        points \in {Unset, 0, MaxPoints}, started_at \in {Unset, 0}}

ListingUpdates ==
    {[NoUpdate EXCEPT !.points = MaxPoints], [NoUpdate EXCEPT !.status = "Done"]}

NextListing ==
    \/ ~TasksFull /\ \E task \in ListingTasks : create_task(task)
    \/ \E task_id \in Ids(tasks), task \in ListingUpdates : update_task(task_id, task)
    \/ \E task_id \in Ids(tasks) : delete_task(task_id)
    \/ \E status \in {NoneStr, "To Do"} : read_tasks(status, NoneStr, None, NoneStr)
    \/ \E task_id \in Ids(tasks) : get_task(task_id)

SpecListing == Init /\ [][NextListing]_vars

----------------------------------------------------------------------------
(* Properties of the sprint calendar *)

\* the SprintResponse records of the last response
ReportedSprints ==
    IF response.code = 200 /\ response.op \in {"create_sprint", "get_sprint"}
    THEN {response.body}
    ELSE IF response.code = 200 /\ response.op = "list_sprints"
    THEN {response.body[i] : i \in DOMAIN response.body}
    ELSE {}

\* C1 as stated: for every stored sprint and every time, status_calculado is
\* Planejado exactly when now < start_date, Ativo exactly when
\* start_date <= now <= end_date, and Concluído exactly when now > end_date.
C1_StatusPartitionAsStated ==
    \A r \in ReportedSprints :
        LET s == sprints[r.id]
            t == response.at
        IN /\ (r.status_calculado = "Planejado") <=> (t < s.start_date)
           /\ (r.status_calculado = "Ativo") <=> (s.start_date <= t /\ t <= s.end_date)
           /\ (r.status_calculado = "Concluído") <=> (t > s.end_date)

\* C1 amended: status_calculado is always one of the three values; it is
\* Planejado exactly when now < start_date, Ativo exactly when
\* start_date <= now <= end_date (so at now = start_date and at now = end_date),
\* and Concluído exactly when now > end_date and now >= start_date, which is
\* now > end_date for every sprint with start_date <= end_date.
C1_StatusPartition ==
    \A r \in ReportedSprints :
        LET s == sprints[r.id]
            t == response.at
        IN /\ r.status_calculado \in {"Planejado", "Ativo", "Concluído"}
           /\ (r.status_calculado = "Planejado") <=> (t < s.start_date)
           /\ (r.status_calculado = "Ativo") <=> (s.start_date <= t /\ t <= s.end_date)
           /\ (r.status_calculado = "Concluído") <=>
                 (t > s.end_date /\ t >= s.start_date)
           /\ (s.start_date <= s.end_date) =>
                 ((r.status_calculado = "Concluído") <=> (t > s.end_date))

\* a sprint that is read at the very time of its end_date, after its start, is Ativo
C1_Witness ==
    /\ response.op = "get_sprint"
    /\ response.code = 200
    /\ sprints[response.arg].start_date < sprints[response.arg].end_date
    /\ response.at = sprints[response.arg].end_date
    /\ response.body.status_calculado = "Ativo"

\* C2 as stated: burndown_chart returns (end_date.date - start_date.date) + 1
\* entries, one per day from the start date to the end date, in order.
C2_BurndownDayCountAsStated ==
    (response.op = "burndown_chart" /\ response.code = 200) =>
        LET s == sprints[response.arg]
        IN /\ Len(response.body) = (Date(s.end_date) - Date(s.start_date)) + 1
           /\ \A k \in DOMAIN response.body :
                 response.body[k].date = Date(s.start_date) + k - 1

\* C2 amended: burndown_chart returns max(0, (end_date.date - start_date.date)
\* + 1) entries, one per calendar day from the start date to the end date
\* inclusive, in chronological order; a sprint that ends on a day before it
\* starts has no entry.
C2_BurndownDayCount ==
    (response.op = "burndown_chart" /\ response.code = 200) =>
        LET s == sprints[response.arg]
            n == (Date(s.end_date) - Date(s.start_date)) + 1
        IN /\ Len(response.body) = IF n > 0 THEN n ELSE 0
           /\ \A k \in DOMAIN response.body :
                 response.body[k].date = Date(s.start_date) + k - 1
           /\ \A k \in DOMAIN response.body :
                 /\ Date(s.start_date) <= response.body[k].date
                 /\ response.body[k].date <= Date(s.end_date)

\* the burndown of a sprint that spans three calendar days has three entries
C2_Witness ==
    /\ response.op = "burndown_chart"
    /\ response.code = 200
    /\ Date(sprints[response.arg].end_date) = Date(sprints[response.arg].start_date) + 2
    /\ Len(response.body) = 3

----------------------------------------------------------------------------
(* Properties of the charts *)

\* the ids of the tasks of a sprint
SprintTaskIds(sprint_id) == {i \in DOMAIN tasks : tasks[i].sprint_id = sprint_id}

\* the sum of the points of a set of tasks, a missing value counted as 0
RECURSIVE PointSum(_)
PointSum(S) ==
    IF S = {} THEN 0
    ELSE LET i == CHOOSE x \in S : TRUE
         IN (IF tasks[i].points = None THEN 0 ELSE tasks[i].points) + PointSum(S \ {i})

BurndownReturned == response.op = "burndown_chart" /\ response.code = 200

\* the tasks of the sprint with no completed_at or completed after the day
RemainingOn(sprint_id, day) ==
    {i \in SprintTaskIds(sprint_id) :
        tasks[i].completed_at = None \/ Date(tasks[i].completed_at) > day}

\* C3: on every day D of the burndown, remaining_tasks is the number of the
\* sprint's tasks with no completed_at or with a completed_at date strictly
\* after D, and remaining_points is the sum of their points, a missing points
\* value counted as 0.
C3_BurndownRemaining ==
    BurndownReturned =>
        \A k \in DOMAIN response.body :
            LET e == response.body[k]
                left == RemainingOn(response.arg, e.date)
            IN /\ e.remaining_tasks = Cardinality(left)
               /\ e.remaining_points = PointSum(left)

\* a day on which one task of the sprint remains, with points, and another task
\* of the sprint is completed
C3_Witness ==
    /\ BurndownReturned
    /\ \E k \in DOMAIN response.body :
          /\ response.body[k].remaining_tasks = 1
          /\ response.body[k].remaining_points > 0
          /\ Cardinality(SprintTaskIds(response.arg)) = 2

\* the sprint's only task, when it has one task and that task is completed
OnlyCompletedTask(sprint_id) ==
    {i \in SprintTaskIds(sprint_id) :
        SprintTaskIds(sprint_id) = {i} /\ tasks[i].completed_at # None}

\* the example: a sprint from day 0 to day 2 whose only task is completed on day 1
C4_Example ==
    /\ BurndownReturned
    /\ Date(sprints[response.arg].start_date) = 0
    /\ Date(sprints[response.arg].end_date) = 2
    /\ \E i \in OnlyCompletedTask(response.arg) : Date(tasks[i].completed_at) = 1

\* C4 as stated: a task is still remaining on the day of its completion and no
\* longer on the following day; in the example remaining_tasks is 1, 1, 0.
C4_RemainingOnCompletionDayAsStated ==
    BurndownReturned =>
        LET body == response.body
        IN /\ \A i \in OnlyCompletedTask(response.arg), k \in DOMAIN body :
                 Date(tasks[i].completed_at) = body[k].date
                 => /\ body[k].remaining_tasks = 1
                    /\ (k + 1 \in DOMAIN body => body[k + 1].remaining_tasks = 0)
           /\ C4_Example
              => /\ Len(body) = 3
                 /\ body[1].remaining_tasks = 1
                 /\ body[2].remaining_tasks = 1
                 /\ body[3].remaining_tasks = 0

\* C4 amended: a task is counted as remaining up to the day before its
\* completion and no longer on the calendar day of its completion; in the
\* example (days 0 to 2, the only task completed on day 1) remaining_tasks is
\* 1 on day 0, 0 on day 1 and 0 on day 2.
C4_NotRemainingOnCompletionDay ==
    BurndownReturned =>
        LET body == response.body
        IN /\ \A i \in OnlyCompletedTask(response.arg), k \in DOMAIN body :
                 Date(tasks[i].completed_at) = body[k].date
                 => /\ body[k].remaining_tasks = 0
                    /\ (k - 1 \in DOMAIN body => body[k - 1].remaining_tasks = 1)
           /\ C4_Example
              => /\ Len(body) = 3
                 /\ body[1].date = 0 /\ body[1].remaining_tasks = 1
                 /\ body[2].date = 1 /\ body[2].remaining_tasks = 0
                 /\ body[3].date = 2 /\ body[3].remaining_tasks = 0

\* the burndown of the example has been returned
C4_Witness ==
    /\ C4_Example
    /\ response.body[1].remaining_tasks = 1
    /\ response.body[2].remaining_tasks = 0

\* C5: remaining_tasks never increases from one entry of a burndown to the next.
C5_BurndownNonIncreasing ==
    BurndownReturned =>
        \A k \in DOMAIN response.body :
            k + 1 \in DOMAIN response.body =>
                response.body[k + 1].remaining_tasks <= response.body[k].remaining_tasks

\* a burndown that goes down from one day to the next
C5_Witness ==
    /\ BurndownReturned
    /\ \E k \in DOMAIN response.body :
          /\ k + 1 \in DOMAIN response.body
          /\ response.body[k + 1].remaining_tasks < response.body[k].remaining_tasks

CfdReturned == response.op = "cfd_chart" /\ response.code = 200

\* the bucket of a task on a day, as the claim states it
BucketOn(i, day) ==
    IF tasks[i].completed_at # None /\ Date(tasks[i].completed_at) <= day THEN "Done"
    ELSE IF tasks[i].started_at # None /\ Date(tasks[i].started_at) <= day THEN "Doing"
    ELSE "To Do"

\* C6: in every entry of the CFD the three counts sum to the number of tasks of
\* the sprint, and each count is the number of the sprint's tasks in that
\* bucket: Done if completed_at's date <= D, else Doing if started_at's date
\* <= D, else To Do.
C6_CfdBuckets ==
    CfdReturned =>
        \A k \in DOMAIN response.body :
            LET e == response.body[k]
                ids == SprintTaskIds(response.arg)
            IN /\ e.ToDo + e.Doing + e.Done = Cardinality(ids)
               /\ e.ToDo = Cardinality({i \in ids : BucketOn(i, e.date) = "To Do"})
               /\ e.Doing = Cardinality({i \in ids : BucketOn(i, e.date) = "Doing"})
               /\ e.Done = Cardinality({i \in ids : BucketOn(i, e.date) = "Done"})

\* a day with one task started and not completed and one task started and
\* completed
C6_Witness ==
    /\ CfdReturned
    /\ \E k \in DOMAIN response.body :
          /\ response.body[k].Doing = 1
          /\ response.body[k].Done = 1
          /\ \E i \in SprintTaskIds(response.arg) :
                /\ tasks[i].started_at # None
                /\ tasks[i].completed_at # None
                /\ Date(tasks[i].started_at) <= response.body[k].date
                /\ Date(tasks[i].completed_at) <= response.body[k].date

----------------------------------------------------------------------------
(* Properties of the aggregates *)

\* the tasks of a sprint that have a completion timestamp
CompletedIds(sprint_id) ==
    {i \in SprintTaskIds(sprint_id) : tasks[i].completed_at # None}

\* the stored sprints with at least one completed task
SprintsWithCompleted == {sid \in DOMAIN sprints : CompletedIds(sid) # {}}

\* C7: velocity_chart returns one entry for each sprint with at least one
\* completed task (a task with a completed_at) and none for the others, in
\* ascending sprint id order, each with the sprint's name, the number of its
\* completed tasks and the sum of their points, a missing value counted as 0.
C7_VelocityEntries ==
    (response.op = "velocity_chart") =>
        LET body == response.body
        IN /\ response.code = 200
           /\ {body[k].sprint_id : k \in DOMAIN body} = SprintsWithCompleted
           /\ Len(body) = Cardinality(SprintsWithCompleted)
           /\ \A k \in DOMAIN body :
                 k + 1 \in DOMAIN body => body[k].sprint_id < body[k + 1].sprint_id
           /\ \A k \in DOMAIN body :
                 LET sid == body[k].sprint_id
                 IN /\ body[k].sprint_name = sprints[sid].name
                    /\ body[k].completed_tasks = Cardinality(CompletedIds(sid))
                    /\ body[k].completed_points = PointSum(CompletedIds(sid))

\* two sprints with a completed task each, with points, are both reported
C7_Witness ==
    /\ response.op = "velocity_chart"
    /\ Len(response.body) = 2
    /\ response.body[1].completed_points > 0
    /\ Cardinality(DOMAIN sprints) = 2

\* C8: sprint_summary counts every task of the sprint in exactly one of the
\* buckets To Do, Doing and Done, a task with any other stored status under
\* To Do; total_tasks is the sum of the three task counts and total_points the
\* sum of the three point sums, a missing points value counted as 0.
C8_SummaryPartition ==
    (response.op = "sprint_summary") =>
        LET body == response.body
            ids == SprintTaskIds(response.arg)
            InBucket(b) == {i \in ids :
                              \/ tasks[i].status = b
                              \/ b = "To Do" /\ tasks[i].status \notin AllowedStatus}
        IN /\ response.code = 200
           /\ body.ToDo = [tasks |-> Cardinality(InBucket("To Do")),
                           points |-> PointSum(InBucket("To Do"))]
           /\ body.Doing = [tasks |-> Cardinality(InBucket("Doing")),
                            points |-> PointSum(InBucket("Doing"))]
           /\ body.Done = [tasks |-> Cardinality(InBucket("Done")),
                           points |-> PointSum(InBucket("Done"))]
           /\ body.total_tasks = Cardinality(ids)
           /\ body.total_tasks = body.ToDo.tasks + body.Doing.tasks + body.Done.tasks
           /\ body.total_points = PointSum(ids)
           /\ body.total_points = body.ToDo.points + body.Doing.points + body.Done.points

\* the summary of a sprint with a task that has no status, carrying points, and
\* a Done task
C8_Witness ==
    /\ response.op = "sprint_summary"
    /\ \E i \in SprintTaskIds(response.arg) :
          tasks[i].status \notin AllowedStatus /\ tasks[i].points # None
    /\ response.body.ToDo.tasks = 1
    /\ response.body.ToDo.points > 0
    /\ response.body.Done.tasks = 1

\* the tasks of a sprint that have a completed_at and a started_at
CycleIds(sprint_id) ==
    {i \in CompletedIds(sprint_id) : tasks[i].started_at # None}

\* C9: sprint_leadtime never fails; the lead-time outputs are null exactly when
\* the sprint has no task with a completion timestamp, the cycle-time outputs
\* exactly when it has none that also has started_at; with one such task the
\* outputs are that task's lead time and cycle time.
C9_LeadtimeNullWhenEmpty ==
    (response.op = "sprint_leadtime") =>
        LET body == response.body
            done == CompletedIds(response.arg)
            cycle == CycleIds(response.arg)
        IN /\ response.code = 200
           /\ IsNull(body.lead_time_avg) <=> done = {}
           /\ IsNull(body.lead_time_median) <=> done = {}
           /\ IsNull(body.cycle_time_avg) <=> cycle = {}
           /\ IsNull(body.cycle_time_median) <=> cycle = {}
           /\ \A i \in done :
                 done = {i} =>
                    LET lead == (tasks[i].completed_at - tasks[i].created_at)
                                   * HoursPerTick * 100
                    IN body.lead_time_avg = <<lead>> /\ body.lead_time_median = <<lead>>
           /\ \A i \in cycle :
                 cycle = {i} =>
                    LET time == (tasks[i].completed_at - tasks[i].started_at)
                                   * HoursPerTick * 100
                    IN body.cycle_time_avg = <<time>> /\ body.cycle_time_median = <<time>>

\* a sprint with a completed task that was never started: a lead time and no
\* cycle time
C9_Witness ==
    /\ response.op = "sprint_leadtime"
    /\ response.code = 200
    /\ CompletedIds(response.arg) # {}
    /\ ~IsNull(response.body.lead_time_avg)
    /\ IsNull(response.body.cycle_time_avg)

\* C10: a sprint-scoped report asked for an id that names no stored sprint is a
\* not-found error.
C10_MissingSprintNotFound ==
    (/\ response.op \in {"burndown_chart", "cfd_chart", "sprint_summary", "sprint_leadtime"}
     /\ response.arg \notin DOMAIN sprints)
    => response.code = 404

----------------------------------------------------------------------------
(* Properties of the task handlers *)

\* what the claim calls an invalid payload
Refused(task) ==
    \/ task.points \notin {Unset, None} /\ task.points < 0
    \/ task.status \notin AllowedStatus \cup {UnsetStr, NoneStr}
    \/ task.priority \notin AllowedPriority \cup {UnsetStr, NoneStr}

\* C11: a create_task or update_task request whose payload has points below
\* zero, a status outside the three statuses or a priority outside the three
\* priorities is answered with a validation error and adds or changes no task.
C11_InvalidPayloadRejected ==
    /\ \A task \in ValidationTasks :
          Refused(task) =>
              /\ ENABLED create_task(task)
              /\ ~ENABLED (/\ create_task(task)
                           /\ ~(response'.code = 422 /\ tasks' = tasks))
    /\ \A task_id \in Ids(tasks), task \in ValidationUpdates :
          Refused(task) =>
              /\ ENABLED update_task(task_id, task)
              /\ ~ENABLED (/\ update_task(task_id, task)
                           /\ ~(response'.code = 422 /\ tasks' = tasks))

\* an update with a refused payload was answered while its task is stored
C11_Witness ==
    /\ response.op = "update_task"
    /\ response.code = 422
    /\ response.arg \in DOMAIN tasks

\* the update is the first move of the task into Doing
FirstMoveToDoing(task_id, task) ==
    /\ tasks[task_id].status # "Doing"
    /\ ~IsSet(tasks[task_id].started_at)
    /\ task.status = "Doing"

\* C12 as stated: every update_task that finds the task with a status other
\* than Doing and no started_at, and whose new status is Doing, leaves the
\* task with a started_at that is the time of the update.
C12_StampOnFirstDoingAsStated ==
    \A task_id \in DOMAIN tasks, task \in StampUpdates :
        FirstMoveToDoing(task_id, task) =>
            ~ENABLED (/\ update_task(task_id, task)
                      /\ tasks'[task_id].started_at # now)

\* C12: an update_task that finds the task with a status other than Doing and
\* no started_at, whose new status is Doing and whose payload carries no
\* started_at, leaves the task with a started_at that is the time of the
\* update; a started_at of the payload, null included, replaces the stamp.
C12_StampOnFirstDoing ==
    \A task_id \in DOMAIN tasks, task \in StampUpdates :
        FirstMoveToDoing(task_id, task) =>
            /\ ENABLED update_task(task_id, task)
            /\ ~ENABLED (/\ update_task(task_id, task)
                         /\ tasks'[task_id].started_at #
                               (IF task.started_at = Unset THEN now ELSE task.started_at))

\* an update has stamped a task at a time no payload carries
C12_Witness ==
    /\ response.op = "update_task"
    /\ response.code = 200
    /\ response.arg \in DOMAIN tasks
    /\ tasks[response.arg].status = "Doing"
    /\ tasks[response.arg].started_at = response.at
    /\ response.at \notin TaskTimes
    /\ response.at > tasks[response.arg].created_at

\* C13: once a task has a started_at, an update_task that keeps the status
\* Doing and carries no started_at leaves the stored started_at as it was.
C13_StampKept ==
    \A task_id \in DOMAIN tasks, task \in StampUpdates :
        /\ tasks[task_id].status = "Doing"
        /\ IsSet(tasks[task_id].started_at)
        /\ task.status \in {UnsetStr, "Doing"}
        /\ task.started_at = Unset
        => /\ ENABLED update_task(task_id, task)
           /\ ~ENABLED (/\ update_task(task_id, task)
                        /\ tasks'[task_id].started_at # tasks[task_id].started_at)

\* a task in Doing still has the stamp of an earlier update after a later one
C13_Witness ==
    /\ response.op = "update_task"
    /\ response.code = 200
    /\ response.arg \in DOMAIN tasks
    /\ tasks[response.arg].status = "Doing"
    /\ IsSet(tasks[response.arg].started_at)
    /\ tasks[response.arg].started_at \notin TaskTimes
    /\ tasks[response.arg].started_at < response.at

----------------------------------------------------------------------------
(* Properties of the updates *)

\* the fields of an update payload other than the start stamp that the client
\* did not send, compared between the row before and the row after
TaskFieldsKept(old, new, task) ==
    /\ task.title = UnsetStr => new.title = old.title
    /\ task.description = UnsetStr => new.description = old.description
    /\ task.status = UnsetStr => new.status = old.status
    /\ task.project = UnsetStr => new.project = old.project
    /\ task.sprint_id = Unset => new.sprint_id = old.sprint_id
    /\ task.points = Unset => new.points = old.points
    /\ task.priority = UnsetStr => new.priority = old.priority
    /\ task.completed_at = Unset => new.completed_at = old.completed_at
    /\ new.id = old.id /\ new.created_at = old.created_at

ProjectFieldsKept(old, new, project_data) ==
    /\ project_data.name = UnsetStr => new.name = old.name
    /\ project_data.description = UnsetStr => new.description = old.description
    /\ project_data.status = UnsetStr => new.status = old.status
    /\ project_data.start_date = Unset => new.start_date = old.start_date
    /\ project_data.end_date = Unset => new.end_date = old.end_date
    /\ new.id = old.id /\ new.created_at = old.created_at

\* update_task is partial
PartialTaskUpdate ==
    \A task_id \in DOMAIN tasks, task \in PartialTaskUpdates :
        ~ENABLED (/\ update_task(task_id, task)
                  /\ ~TaskFieldsKept(tasks[task_id], tasks'[task_id], task))

\* update_project is partial
PartialProjectUpdate ==
    \A project_id \in DOMAIN projects, project_data \in PartialProjectUpdates :
        ~ENABLED (/\ update_project(project_id, project_data)
                  /\ ~ProjectFieldsKept(projects[project_id], projects'[project_id],
                                        project_data))

\* C14: for every update_project and update_task request, every field of the
\* stored row that the payload does not carry keeps its value (but for the
\* started_at stamp of update_task).
C14_UpdatesArePartial == PartialTaskUpdate /\ PartialProjectUpdate

----------------------------------------------------------------------------
(* Properties of the links between projects, sprints and tasks *)

\* the sprint lies in the period of the project, where the project has one
InProjectBounds(sprint, project) ==
    /\ project.start_date # None => sprint.start_date >= project.start_date
    /\ project.end_date # None => sprint.end_date <= project.end_date

\* what the claim says of one create_sprint request that names a project
SprintOfProjectChecked(sprint) ==
    IF sprint.project_id \notin DOMAIN projects
    THEN ~ENABLED (/\ create_sprint(sprint)
                   /\ ~(response'.code = 404 /\ sprints' = sprints))
    ELSE IF ~InProjectBounds(sprint, projects[sprint.project_id])
    THEN ~ENABLED (/\ create_sprint(sprint)
                   /\ ~(response'.code = 400 /\ sprints' = sprints))
    ELSE ~ENABLED (/\ create_sprint(sprint)
                   /\ ~(response'.code = 200 /\ DOMAIN sprints' # DOMAIN sprints))

\* C15: create_sprint with a project_id in the payload stores a sprint only if
\* the project exists and the sprint's dates lie inside the bounds the project
\* has; a missing project is a not-found error, a date outside the bounds a
\* validation error, and neither stores a sprint.
C15_SprintOfProject ==
    \A sprint \in ProjectSprints :
        sprint.project_id # None => SprintOfProjectChecked(sprint)

\* the same for the payloads whose project_id is not 0
SprintOfProjectNonZero ==
    \A sprint \in ProjectSprints :
        Truthy(sprint.project_id) => SprintOfProjectChecked(sprint)

\* the task's dates, where it has them, lie in the sprint's period
InSprintBounds(task, sprint) ==
    /\ task.started_at # Unset =>
          sprint.start_date <= task.started_at /\ task.started_at <= sprint.end_date
    /\ task.completed_at # Unset =>
          sprint.start_date <= task.completed_at /\ task.completed_at <= sprint.end_date

\* the two comparisons of create_task
InSprintBoundsOneSided(task, sprint) ==
    /\ task.started_at # Unset => sprint.start_date <= task.started_at
    /\ task.completed_at # Unset => task.completed_at <= sprint.end_date

\* C16: create_task with a sprint_id in the payload stores a task only if the
\* sprint exists and the task's started_at and completed_at, when given, lie
\* inside the sprint's period; a missing sprint is a not-found error, a date
\* outside the period a validation error, and neither stores a task.
C16_TaskOfSprint ==
    \A task \in SprintTasks :
        task.sprint_id # Unset =>
            IF task.sprint_id \notin DOMAIN sprints
            THEN ~ENABLED (/\ create_task(task)
                           /\ ~(response'.code = 404 /\ tasks' = tasks))
            ELSE IF ~InSprintBounds(task, sprints[task.sprint_id])
            THEN ~ENABLED (/\ create_task(task)
                           /\ ~(response'.code = 400 /\ tasks' = tasks))
            ELSE ~ENABLED (/\ create_task(task)
                           /\ ~(response'.code = 200 /\ DOMAIN tasks' # DOMAIN tasks))

\* the same for a sprint_id that is not 0, with started_at compared with the
\* sprint's start only and completed_at with its end only
TaskOfSprintNonZeroOneSided ==
    \A task \in SprintTasks :
        Truthy(Attr(task.sprint_id, None)) =>
            IF task.sprint_id \notin DOMAIN sprints
            THEN ~ENABLED (/\ create_task(task)
                           /\ ~(response'.code = 404 /\ tasks' = tasks))
            ELSE IF ~InSprintBoundsOneSided(task, sprints[task.sprint_id])
            THEN ~ENABLED (/\ create_task(task)
                           /\ ~(response'.code = 400 /\ tasks' = tasks))
            ELSE ~ENABLED (/\ create_task(task)
                           /\ ~(response'.code = 200 /\ DOMAIN tasks' # DOMAIN tasks))

----------------------------------------------------------------------------
(* Properties of the responses *)

\* the delay flag as the claim defines it, at the time of the response
Delayed(task_id, at) ==
    /\ tasks[task_id].sprint_id \in DOMAIN sprints
    /\ sprints[tasks[task_id].sprint_id].end_date # None
    /\ tasks[task_id].status # "Done"
    /\ at > sprints[tasks[task_id].sprint_id].end_date

\* the listing of read_tasks carries the delay flag of each of its tasks
ListingDelayFlag ==
    response.op = "read_tasks" /\ response.code = 200 =>
        \A k \in 1..Len(response.body) :
            response.body[k].atrasada = Delayed(response.body[k].id, response.at)

\* C17: in every task the API returns (the listing of read_tasks, get_task,
\* the responses of create_task and update_task, get_project_tasks) atrasada
\* is true exactly when the task's sprint has an end_date, the task is not
\* Done and the time of the response is past that end_date.
C17_DelayFlag ==
    /\ ListingDelayFlag
    /\ response.op \in {"get_task", "create_task", "update_task"} /\ response.code = 200 =>
           response.body.atrasada = Delayed(response.body.id, response.at)
    /\ response.op = "get_project_tasks" /\ response.code = 200 =>
           \A k \in 1..Len(response.body) :
               response.body[k].atrasada = Delayed(response.body[k].id, response.at)

\* the response carries the value of every field of the row
EchoesRow(body, row) == \A f \in DOMAIN row : body[f] = row[f]

\* the responses of create_project, update_project, create_task and
\* update_task carry the stored row
EchoOfProjectsAndTasks ==
    /\ response.op \in {"create_project", "update_project"} /\ response.code = 200 =>
          /\ response.arg \in DOMAIN projects
          /\ response.body.id = response.arg
          /\ EchoesRow(response.body, projects[response.arg])
    /\ response.op \in {"create_task", "update_task"} /\ response.code = 200 =>
          /\ response.arg \in DOMAIN tasks
          /\ response.body.id = response.arg
          /\ EchoesRow(response.body, tasks[response.arg])

\* C18: the response of every create or update that succeeds (create_project,
\* update_project, create_sprint, create_task, update_task) carries the stored
\* value of every field of the row, the id the server gave it and, for a
\* sprint, its project_id.
C18_ResponseEchoesRow ==
    /\ EchoOfProjectsAndTasks
    /\ response.op = "create_sprint" /\ response.code = 200 =>
          /\ response.arg \in DOMAIN sprints
          /\ response.body.id = response.arg
          /\ EchoesRow(response.body, sprints[response.arg])

\* the response is the rows of the projects table
ProjectRowsReturned ==
    /\ Len(response.body) = Cardinality(DOMAIN projects)
    /\ \A k \in 1..Len(response.body) :
          /\ response.body[k].id \in DOMAIN projects
          /\ response.body[k] = ProjectResponse(projects[response.body[k].id])
    /\ \A i \in DOMAIN projects : \E k \in 1..Len(response.body) : response.body[k].id = i

\* C19: after any sequence of create_project, update_project and
\* delete_project, the response of GET /projects is the Project rows of the
\* store, one for each project created and not deleted.
C19_ProjectsListed ==
    response.op \in {"list_projects", "list_project_rows"} =>
        IF DOMAIN projects = {}
        THEN response.body = <<>>
        ELSE response.op = "list_project_rows" /\ ProjectRowsReturned

----------------------------------------------------------------------------
(* Properties of the sessions *)

\* the requests through get_db have closed their session when they end
GetDbSessionsReleased ==
    \A r \in 1..MaxRequests :
        requests[r].handler \in GetDbHandlers /\ requests[r].pc = "ended" =>
            requests[r].db = "closed"

\* C20: every request handler has a session of its own for the time of the
\* request, and the session is released on every exit path (success,
\* validation failure, not-found, an error raised while handling): no session
\* is open once its request has ended.
C20_SessionsReleased ==
    \A r \in 1..MaxRequests :
        requests[r].pc = "ended" => requests[r].db = "closed"

----------------------------------------------------------------------------
(* Properties of the stored tasks *)

\* C21: after any sequence of create_task, update_task, delete_task,
\* seed_demo_data and seed_more_data, every task of the store has a status
\* that is one of To Do, Doing and Done.
C21_StoredStatusValid ==
    \A i \in DOMAIN tasks : tasks[i].status \in AllowedStatus

----------------------------------------------------------------------------
(* Properties of concurrent updates *)

\* requests that run one after the other keep the first stamp: a commit of
\* a request that read the row when no other request was between its query
\* and its commit leaves a stored started_at as it is
SerialStampKept ==
    \A r \in DOMAIN requests :
        /\ requests[r].pc = "stamped"
        /\ requests[r].loaded = tasks[requests[r].task_id]
        /\ IsSet(requests[r].loaded.started_at)
        => requests[r].db_task.started_at = tasks[requests[r].task_id].started_at

\* C22: under any interleaving of two update_task requests that move the
\* same task to Doing without a started_at, a started_at that is stored is
\* not changed by the stamp of the other request.
C22_FirstStampKept ==
    [][\A i \in DOMAIN tasks \cap DOMAIN tasks' :
          IsSet(tasks[i].started_at) => tasks'[i].started_at = tasks[i].started_at]_vars

----------------------------------------------------------------------------
(* Properties of the listing of tasks *)

\* the entries of the last listing agree with what get_task answers for
\* their task on the given fields
ListingAgrees(fields) ==
    response.op = "read_tasks" =>
        \A k \in DOMAIN response.body :
            LET entry == response.body[k]
                one == TaskReply("get_task", entry.id, tasks[entry.id])
            IN /\ one.code = 200
               /\ \A field \in fields : entry[field] = one.body[field]

\* the listing and get_task agree on every field of the row but points
ListingAgreesButPoints ==
    ListingAgrees({"id", "title", "description", "status", "project", "sprint_id",
                   "priority", "created_at", "started_at", "completed_at"})

\* C23: the entry of a task in the listing of read_tasks has the same id,
\* title, description, status, project, sprint_id, points, priority,
\* created_at, started_at and completed_at as get_task returns for the task.
C23_ListingMatchesGetTask ==
    ListingAgrees({"id", "title", "description", "status", "project", "sprint_id",
                   "points", "priority", "created_at", "started_at", "completed_at"})

====
